---- MODULE Spec2Model ----
(***************************************************************************)
(* Binary VDF (KeyValues) codec, shortcut record mapping and the shortcut  *)
(* repository of steam-shelf.                                              *)
(*                                                                         *)
(* Representation of Python values:                                        *)
(*   str    a sequence of Unicode code points                              *)
(*   bytes  a sequence of 0..255                                           *)
(*   int    sign and magnitude, the magnitude as little-endian base-256    *)
(*          digits without trailing zero digits (Python ints are           *)
(*          unbounded, 2^32 and 2^64 do not fit a TLC integer)             *)
(*   float  an IEEE-754 double <<sign, exponent, hi, lo>>: the 11-bit      *)
(*          biased exponent, the top 23 and the low 29 mantissa bits       *)
(*   dict   a sequence of entries [k, v] with distinct keys, in insertion  *)
(*          order                                                          *)
(* Every value is a record [t, s, neg, d] so that any two compare.         *)
(***************************************************************************)
EXTENDS Integers, Sequences, FiniteSets, TLC

----------------------------------------------------------------------------
(* Python values *)

PyStr(cps) == [t |-> "str", s |-> cps, neg |-> FALSE, d |-> <<>>]

PyInt(negative, mag) == [t |-> "int", s |-> mag, neg |-> negative, d |-> <<>>]

PyFloat(sign, e, hi, lo) ==
    [t |-> "float", s |-> <<sign, e, hi, lo>>, neg |-> FALSE, d |-> <<>>]

PyDict(entries) == [t |-> "dict", s |-> <<>>, neg |-> FALSE, d |-> entries]

Entry(key, value) == [k |-> key, v |-> value]

\* dict: k in d
HasKey(entries, key) == \E i \in 1..Len(entries) : entries[i].k = key

KeyIndex(entries, key) ==
    CHOOSE i \in 1..Len(entries) : entries[i].k = key

\* dict: d[k]
DictGet(entries, key) == entries[KeyIndex(entries, key)].v

\* d.get(k) or default: a value that is false counts as missing
Get_or_default(entries, key, default) ==
    LET v == DictGet(entries, key)
        falsy == \/ v.t \in { "int", "str" } /\ v.s = <<>>
                 \/ v.t = "dict" /\ v.d = <<>>
                 \/ v.t = "float" /\ v.s[2] = 0 /\ v.s[3] = 0 /\ v.s[4] = 0
    IN  IF HasKey(entries, key) /\ ~falsy THEN v ELSE default

\* dict: d.get(k, default)
Get(entries, key, default) ==
    IF HasKey(entries, key) THEN DictGet(entries, key) ELSE default

\* a key already present keeps its value
DictSet_keep_first(entries, key, value) ==
    IF HasKey(entries, key) THEN entries
    ELSE Append(entries, Entry(key, value))

\* dict: d[k] = v; an existing key keeps its position, a new key is appended
DictSet(entries, key, value) ==
    IF HasKey(entries, key)
    THEN [entries EXCEPT ![KeyIndex(entries, key)] = Entry(key, value)]
    ELSE Append(entries, Entry(key, value))

Keys(entries) == [i \in 1..Len(entries) |-> entries[i].k]

IsNaN(f) == f.s[2] = 2047 /\ (f.s[3] # 0 \/ f.s[4] # 0)

IsZeroFloat(f) == f.s[2] = 0 /\ f.s[3] = 0 /\ f.s[4] = 0

\* Python ==, on values of the kinds above (dicts compare without order;
\* a decoded NaN is a new object and equals nothing; -0.0 == 0.0)
RECURSIVE PyEq(_, _)
PyEq(a, b) ==
    IF a.t # b.t THEN FALSE
    ELSE IF a.t = "dict"
    THEN /\ Len(a.d) = Len(b.d)
         /\ \A i \in 1..Len(a.d) :
               /\ HasKey(b.d, a.d[i].k)
               /\ PyEq(a.d[i].v, DictGet(b.d, a.d[i].k))
    ELSE IF a.t = "float"
    THEN /\ ~IsNaN(a)
         /\ ~IsNaN(b)
         /\ (a.s = b.s \/ (IsZeroFloat(a) /\ IsZeroFloat(b)))
    ELSE a.s = b.s /\ a.neg = b.neg

----------------------------------------------------------------------------
(* bytes and integers *)

RECURSIVE Concat(_)
Concat(seqs) ==
    IF seqs = <<>> THEN <<>> ELSE Head(seqs) \o Concat(Tail(seqs))

Zeros(n) == [i \in 1..n |-> 0]

\* the canonical magnitude: no trailing (most significant) zero digits
RECURSIVE Strip(_)
Strip(bs) ==
    IF bs # <<>> /\ bs[Len(bs)] = 0 THEN Strip(SubSeq(bs, 1, Len(bs) - 1))
    ELSE bs

\* a <= b on canonical magnitudes
RECURSIVE MagLeq(_, _)
MagLeq(a, b) ==
    IF Len(a) # Len(b) THEN Len(a) < Len(b)
    ELSE IF a = <<>> THEN TRUE
    ELSE IF a[Len(a)] # b[Len(b)] THEN a[Len(a)] < b[Len(b)]
    ELSE MagLeq(SubSeq(a, 1, Len(a) - 1), SubSeq(b, 1, Len(b) - 1))

\* lo <= v <= hi on Python ints
IntLeq(a, b) ==
    IF a.neg /\ ~b.neg THEN TRUE
    ELSE IF ~a.neg /\ b.neg THEN FALSE
    ELSE IF a.neg THEN MagLeq(b.s, a.s)
    ELSE MagLeq(a.s, b.s)

\* the low n base-256 digits of a magnitude
LowBytes(mag, n) == SubSeq(mag \o Zeros(n), 1, n)

\* 256^n - x for the n-digit x (two's complement negation), digit by digit
RECURSIVE Negate(_, _)
Negate(bs, carry) ==
    IF bs = <<>> THEN <<>>
    ELSE LET sum == (255 - Head(bs)) + carry
         IN  <<sum % 256>> \o Negate(Tail(bs), sum \div 256)

\* value & (256^n - 1), as n little-endian digits
MaskBytes(v, n) ==
    IF v.neg THEN Negate(LowBytes(v.s, n), 1) ELSE LowBytes(v.s, n)

\* struct.unpack('<I') / ('<Q'): an unsigned integer from its digits
UnpackUnsigned(bs) == PyInt(FALSE, Strip(bs))

Int32Min == PyInt(TRUE, <<0, 0, 0, 128>>)

UInt32Max == PyInt(FALSE, <<255, 255, 255, 255>>)

----------------------------------------------------------------------------
(* UTF-8 *)

IsSurrogate(c) == c >= 55296 /\ c <= 57343

\* str.encode('utf-8', errors='replace') of one code point
EncodeCodePoint(c) ==
    IF c < 128 THEN <<c>>
    ELSE IF c < 2048 THEN <<192 + (c \div 64), 128 + (c % 64)>>
    ELSE IF IsSurrogate(c) THEN <<63>>
    ELSE IF c < 65536
    THEN <<224 + (c \div 4096), 128 + ((c \div 64) % 64), 128 + (c % 64)>>
    ELSE <<240 + (c \div 262144), 128 + ((c \div 4096) % 64),
           128 + ((c \div 64) % 64), 128 + (c % 64)>>

RECURSIVE Utf8Encode(_)
Utf8Encode(cps) ==
    IF cps = <<>> THEN <<>>
    ELSE EncodeCodePoint(Head(cps)) \o Utf8Encode(Tail(cps))

IsCont(b) == b >= 128 /\ b <= 191

\* number of continuation bytes the lead byte announces (0: not a lead byte)
NeedCont(b) ==
    IF b >= 194 /\ b <= 223 THEN 1
    ELSE IF b >= 224 /\ b <= 239 THEN 2
    ELSE IF b >= 240 /\ b <= 244 THEN 3
    ELSE 0

\* the range allowed for the byte that follows the lead byte
SecondOk(lead, b) ==
    IF lead = 224 THEN b >= 160 /\ b <= 191
    ELSE IF lead = 237 THEN b >= 128 /\ b <= 159
    ELSE IF lead = 240 THEN b >= 144 /\ b <= 191
    ELSE IF lead = 244 THEN b >= 128 /\ b <= 143
    ELSE IsCont(b)

\* how many bytes from position i form a valid prefix of one sequence
RECURSIVE ValidPrefix(_, _, _)
ValidPrefix(bs, i, k) ==
    IF k > NeedCont(bs[i]) \/ i + k > Len(bs) THEN k
    ELSE IF (k = 1 /\ SecondOk(bs[i], bs[i + 1])) \/ (k > 1 /\ IsCont(bs[i + k]))
    THEN ValidPrefix(bs, i, k + 1)
    ELSE k

CodePointAt(bs, i, n) ==
    IF n = 1 THEN (bs[i] % 32) * 64 + (bs[i + 1] % 64)
    ELSE IF n = 2
    THEN (bs[i] % 16) * 4096 + (bs[i + 1] % 64) * 64 + (bs[i + 2] % 64)
    ELSE (bs[i] % 8) * 262144 + (bs[i + 1] % 64) * 4096
         + (bs[i + 2] % 64) * 64 + (bs[i + 3] % 64)

\* bytes.decode('utf-8', errors='replace'): U+FFFD for each maximal invalid part
RECURSIVE Utf8DecodeFrom(_, _)
Utf8DecodeFrom(bs, i) ==
    IF i > Len(bs) THEN <<>>
    ELSE IF bs[i] < 128 THEN <<bs[i]>> \o Utf8DecodeFrom(bs, i + 1)
    ELSE IF NeedCont(bs[i]) = 0 THEN <<65533>> \o Utf8DecodeFrom(bs, i + 1)
    ELSE LET n == NeedCont(bs[i])
             k == ValidPrefix(bs, i, 1)
         IN  IF k = n + 1
             THEN <<CodePointAt(bs, i, n)>> \o Utf8DecodeFrom(bs, i + n + 1)
             ELSE <<65533>> \o Utf8DecodeFrom(bs, i + k)

Utf8Decode(bs) == Utf8DecodeFrom(bs, 1)

----------------------------------------------------------------------------
(* IEEE-754 *)

Float32(sign, e8, m) == [ok |-> TRUE, sign |-> sign, e |-> e8, m |-> m]

FloatOverflow == [ok |-> FALSE, sign |-> 0, e |-> 0, m |-> 0]

\* (float)x of the C compiler, round to nearest even; PyFloat_Pack4 raises
\* OverflowError when a finite double becomes an infinity
DoubleToFloat32(f) ==
    LET sign == f.s[1]
        e == f.s[2]
        hi == f.s[3]
        lo == f.s[4]
        E == e - 1023
        shift == -126 - E
        hi24 == 8388608 + hi
    IN  IF e = 2047
        THEN IF hi = 0 /\ lo = 0 THEN Float32(sign, 255, 0)
             ELSE Float32(sign, 255, IF hi < 4194304 THEN hi + 4194304 ELSE hi)
        ELSE IF e = 0 THEN Float32(sign, 0, 0)
        ELSE IF E >= -126
        THEN LET up == lo > 268435456 \/ (lo = 268435456 /\ hi % 2 = 1)
                 m == IF up THEN hi + 1 ELSE hi
                 E2 == IF m = 8388608 THEN E + 1 ELSE E
             IN  IF E2 > 127 THEN FloatOverflow
                 ELSE Float32(sign, E2 + 127, IF m = 8388608 THEN 0 ELSE m)
        ELSE IF shift >= 25 THEN Float32(sign, 0, 0)
        ELSE LET q == hi24 \div (2 ^ shift)
                 r == hi24 % (2 ^ shift)
                 half == 2 ^ (shift - 1)
                 up == \/ r > half
                       \/ (r = half /\ lo > 0)
                       \/ (r = half /\ lo = 0 /\ q % 2 = 1)
                 m == IF up THEN q + 1 ELSE q
             IN  IF m = 8388608 THEN Float32(sign, 1, 0)
                 ELSE Float32(sign, 0, m)

\* position of the highest set bit of m > 0
RECURSIVE TopBit(_)
TopBit(m) == IF m < 2 THEN 0 ELSE 1 + TopBit(m \div 2)

\* (double)x, exact; a signalling NaN becomes a quiet one
Float32ToDouble(sign, e8, m) ==
    IF e8 = 255
    THEN PyFloat(sign, 2047, IF m # 0 /\ m < 4194304 THEN m + 4194304 ELSE m, 0)
    ELSE IF e8 = 0 /\ m = 0 THEN PyFloat(sign, 0, 0, 0)
    ELSE IF e8 = 0
    THEN LET p == TopBit(m)
         IN  PyFloat(sign, p - 149 + 1023, (m - 2 ^ p) * (2 ^ (23 - p)), 0)
    ELSE PyFloat(sign, e8 - 127 + 1023, m, 0)

\* the four little-endian bytes of a float32
Float32Bytes(g) ==
    << g.m % 256,
       (g.m \div 256) % 256,
       (g.m \div 65536) + (g.e % 2) * 128,
       (g.e \div 2) + g.sign * 128 >>

BytesToFloat32(bs) ==
    Float32ToDouble(bs[4] \div 128,
                    (bs[4] % 128) * 2 + (bs[3] \div 128),
                    (bs[3] % 128) * 65536 + bs[2] * 256 + bs[1])

----------------------------------------------------------------------------
(* write_binary_vdf *)

\* CPython's default recursion limit (sys.getrecursionlimit()); the code
\* never changes it, and parse_section and encode_value recurse once per
\* nesting level
RecursionLimit == 1000

\* frames below the codec's own: the least a caller can use is the one
\* frame of a script's top level, plus the frame of parse_vdf or
\* write_binary_vdf itself
BaseFrames == 1 + 1

\* the signed 32-bit range alone
FitsInt32_signed(value) ==
    IntLeq(Int32Min, value) /\ IntLeq(value, PyInt(FALSE, <<255, 255, 255, 127>>))

\* -2147483648 <= value <= 4294967295
FitsInt32(value) == IntLeq(Int32Min, value) /\ IntLeq(value, UInt32Max)

Encoded(bytes) == [ok |-> TRUE, bytes |-> bytes]

EncodeRaised == [ok |-> FALSE, bytes |-> <<>>]

\* the terminator forgotten
write_cstring_unterminated(string) == Utf8Encode(string)

\* encode string as null-terminated UTF-8
write_cstring(string) == Utf8Encode(string) \o <<0>>

\* encode_value runs at frame `depth` and calls write_cstring one frame up
RECURSIVE encode_value(_, _, _)
RECURSIVE encode_items(_, _)
encode_value(key, value, depth) ==
    IF depth + 1 > RecursionLimit THEN EncodeRaised
    ELSE IF value.t = "dict"
    THEN LET sub == encode_items(value.d, depth + 1)
         IN  IF sub.ok
             THEN Encoded(<<0>> \o write_cstring(key) \o sub.bytes \o <<8>>)
             ELSE EncodeRaised
    ELSE IF value.t = "str"
    THEN Encoded(<<1>> \o write_cstring(key) \o write_cstring(value.s))
    ELSE IF value.t = "int"
    THEN IF FitsInt32(value)
         THEN Encoded(<<2>> \o write_cstring(key) \o MaskBytes(value, 4))
         ELSE Encoded(<<7>> \o write_cstring(key) \o MaskBytes(value, 8))
    ELSE LET g == DoubleToFloat32(value)
         IN  IF g.ok
             THEN Encoded(<<3>> \o write_cstring(key) \o Float32Bytes(g))
             ELSE EncodeRaised

\* the entries written last to first
encode_items_reversed(entries, depth) ==
    IF entries = <<>> THEN Encoded(<<>>)
    ELSE LET first == encode_value(entries[1].k, entries[1].v, depth)
             rest == encode_items(Tail(entries), depth)
         IN  IF first.ok /\ rest.ok THEN Encoded(rest.bytes \o first.bytes)
             ELSE EncodeRaised

\* for key, value in items: result += encode_value(key, value)
encode_items(entries, depth) ==
    IF entries = <<>> THEN Encoded(<<>>)
    ELSE LET first == encode_value(entries[1].k, entries[1].v, depth)
             rest == encode_items(Tail(entries), depth)
         IN  IF first.ok /\ rest.ok THEN Encoded(first.bytes \o rest.bytes)
             ELSE EncodeRaised

\* the final end marker forgotten
write_binary_vdf_no_end(tree) ==
    LET body == encode_items(tree.d, BaseFrames + 1)
    IN  IF body.ok THEN Encoded(body.bytes) ELSE EncodeRaised

\* the bytes written to the file, or the exception raised before the file
\* is opened
write_binary_vdf(tree) ==
    LET body == encode_items(tree.d, BaseFrames + 1)
    IN  IF body.ok THEN Encoded(body.bytes \o <<8>>) ELSE EncodeRaised

----------------------------------------------------------------------------
(* parse_vdf *)

\* data[offset] with the code's 0-based offset
ByteAt(data, offset) == data[offset + 1]

\* while offset < length and data[offset] != 0: offset += 1
RECURSIVE ScanToNul(_, _)
ScanToNul(data, offset) ==
    IF offset < Len(data) /\ ByteAt(data, offset) # 0
    THEN ScanToNul(data, offset + 1)
    ELSE offset

Read(value, offset) == [val |-> value, offset |-> offset]

\* the terminator skipped even where there is none
read_cstring_past_end(data, offset) ==
    LET end == ScanToNul(data, offset)
    IN  IF end >= Len(data) THEN Read(<<>>, end + 1)
        ELSE Read(Utf8Decode(SubSeq(data, offset + 1, end)), end + 1)

read_cstring(data, offset) ==
    LET end == ScanToNul(data, offset)
    IN  IF end >= Len(data) THEN Read(<<>>, end)
        ELSE Read(Utf8Decode(SubSeq(data, offset + 1, end)), end + 1)

\* struct.unpack('<i'): the four bytes read as a signed integer
read_int32_signed(data, offset) ==
    IF offset + 4 > Len(data) THEN Read(PyInt(FALSE, <<>>), offset)
    ELSE LET bs == SubSeq(data, offset + 1, offset + 4)
         IN  IF bs[4] >= 128 THEN Read(PyInt(TRUE, Strip(Negate(bs, 1))), offset + 4)
             ELSE Read(UnpackUnsigned(bs), offset + 4)

read_int32(data, offset) ==
    IF offset + 4 > Len(data) THEN Read(PyInt(FALSE, <<>>), offset)
    ELSE Read(UnpackUnsigned(SubSeq(data, offset + 1, offset + 4)), offset + 4)

\* the bytes that are left read as the low bytes of the value
read_int64_partial(data, offset) ==
    IF offset + 8 > Len(data)
    THEN Read(UnpackUnsigned(SubSeq(data, offset + 1, Len(data))), Len(data))
    ELSE Read(UnpackUnsigned(SubSeq(data, offset + 1, offset + 8)), offset + 8)

read_int64(data, offset) ==
    IF offset + 8 > Len(data) THEN Read(PyInt(FALSE, <<>>), offset)
    ELSE Read(UnpackUnsigned(SubSeq(data, offset + 1, offset + 8)), offset + 8)

read_float32(data, offset) ==
    IF offset + 4 > Len(data) THEN Read(PyFloat(0, 0, 0, 0), offset)
    ELSE Read(BytesToFloat32(SubSeq(data, offset + 1, offset + 4)), offset + 4)

\* str(n) for n >= 0
RECURSIVE DecimalDigits(_)
DecimalDigits(n) ==
    IF n < 10 THEN <<48 + n>> ELSE DecimalDigits(n \div 10) \o <<48 + (n % 10)>>

\* "_subsection_"
SubsectionPrefix == <<95, 115, 117, 98, 115, 101, 99, 116, 105, 111, 110, 95>>

\* one activation of parse_section: its result so far and the key its
\* caller stores the returned dict under
Frame(result, key) == [result |-> result, key |-> key]

ParseState(offset, stack, out, pc) ==
    [offset |-> offset, stack |-> stack, out |-> out, pc |-> pc]

\* an empty section not stored by the caller
ReturnSection_drop_empty(offset, stack) ==
    LET top == stack[Len(stack)]
        below == SubSeq(stack, 1, Len(stack) - 1)
    IN  IF Len(stack) = 1 THEN ParseState(offset, <<>>, top.result, "done")
        ELSE LET caller == below[Len(below)]
                 stored == IF top.result = <<>> THEN caller.result
                           ELSE DictSet(caller.result, top.key, PyDict(top.result))
             IN  ParseState(offset,
                            [below EXCEPT ![Len(below)] = Frame(stored, caller.key)],
                            <<>>, "parse")

\* an end marker closing the section and the one around it
ReturnSection_closes_two(offset, stack) ==
    LET top == stack[Len(stack)]
        below == SubSeq(stack, 1, Len(stack) - 1)
    IN  IF Len(stack) = 1 THEN ParseState(offset, <<>>, top.result, "done")
        ELSE LET caller == below[Len(below)]
                 stored == DictSet(caller.result, top.key, PyDict(top.result))
                 outer == SubSeq(below, 1, Len(below) - 1)
             IN  IF Len(below) = 1
                 THEN ParseState(offset, <<Frame(stored, caller.key)>>, <<>>, "parse")
                 ELSE ParseState(offset,
                                 [outer EXCEPT ![Len(outer)] =
                                      Frame(DictSet(outer[Len(outer)].result,
                                                    caller.key, PyDict(stored)),
                                            outer[Len(outer)].key)],
                                 <<>>, "parse")

\* `return result` of the innermost parse_section: the caller's
\* result[key] = parse_section(), or the return value of parse_vdf
ReturnSection(offset, stack) ==
    LET top == stack[Len(stack)]
        below == SubSeq(stack, 1, Len(stack) - 1)
    IN  IF Len(stack) = 1 THEN ParseState(offset, <<>>, top.result, "done")
        ELSE LET caller == below[Len(below)]
                 stored == DictSet(caller.result, top.key, PyDict(top.result))
             IN  ParseState(offset,
                            [below EXCEPT ![Len(below)] = Frame(stored, caller.key)],
                            <<>>, "parse")

\* result[key] = value in the innermost parse_section
StoreValue(offset, stack, key, value) ==
    LET top == stack[Len(stack)]
    IN  ParseState(offset,
                   [stack EXCEPT ![Len(stack)] =
                        Frame(DictSet(top.result, key, value), top.key)],
                   <<>>, "parse")

Raised == ParseState(0, <<>>, <<>>, "raised")

\* an entry of unknown type passed over after its key
parse_section_unknown_skipped(data, offset, stack) ==
    LET top == stack[Len(stack)]
        frames == BaseFrames + Len(stack)
    IN  IF offset >= Len(data) THEN ReturnSection(offset, stack)
        ELSE IF frames + 1 > RecursionLimit THEN Raised
        ELSE LET data_type == ByteAt(data, offset)
                 k == read_cstring(data, offset + 1)
             IN  IF data_type = 8 THEN ReturnSection(offset + 1, stack)
                 ELSE IF k.val = <<>> /\ data_type # 0
                 THEN ParseState(k.offset, stack, <<>>, "parse")
                 ELSE IF data_type = 0
                 THEN LET key == IF k.val = <<>>
                                 THEN SubsectionPrefix \o DecimalDigits(Len(top.result))
                                 ELSE k.val
                      IN  ParseState(k.offset, Append(stack, Frame(<<>>, key)),
                                     <<>>, "parse")
                 ELSE IF data_type = 2
                 THEN LET r == read_int32(data, k.offset)
                      IN  StoreValue(r.offset, stack, k.val, r.val)
                 ELSE IF data_type = 3
                 THEN LET r == read_float32(data, k.offset)
                      IN  StoreValue(r.offset, stack, k.val, r.val)
                 ELSE IF data_type = 7
                 THEN LET r == read_int64(data, k.offset)
                      IN  StoreValue(r.offset, stack, k.val, r.val)
                 ELSE IF data_type = 1
                 THEN LET r == read_cstring(data, k.offset)
                      IN  StoreValue(r.offset, stack, k.val, PyStr(r.val))
                 ELSE ParseState(k.offset, stack, <<>>, "parse")

\* one pass through the while loop of the innermost parse_section (or its
\* exit); a call that would exceed the recursion limit raises RecursionError
parse_section(data, offset, stack) ==
    LET top == stack[Len(stack)]
        frames == BaseFrames + Len(stack)
    IN  IF offset >= Len(data) THEN ReturnSection(offset, stack)
        ELSE IF frames + 1 > RecursionLimit THEN Raised
        ELSE LET data_type == ByteAt(data, offset)
                 k == read_cstring(data, offset + 1)
             IN  IF data_type = 8 THEN ReturnSection(offset + 1, stack)
                 ELSE IF k.val = <<>> /\ data_type # 0
                 THEN ParseState(k.offset, stack, <<>>, "parse")
                 ELSE IF data_type = 0
                 THEN LET key == IF k.val = <<>>
                                 THEN SubsectionPrefix \o DecimalDigits(Len(top.result))
                                 ELSE k.val
                      IN  ParseState(k.offset, Append(stack, Frame(<<>>, key)),
                                     <<>>, "parse")
                 ELSE IF data_type = 2
                 THEN LET r == read_int32(data, k.offset)
                      IN  StoreValue(r.offset, stack, k.val, r.val)
                 ELSE IF data_type = 3
                 THEN LET r == read_float32(data, k.offset)
                      IN  StoreValue(r.offset, stack, k.val, r.val)
                 ELSE IF data_type = 7
                 THEN LET r == read_int64(data, k.offset)
                      IN  StoreValue(r.offset, stack, k.val, r.val)
                 ELSE LET r == read_cstring(data, k.offset)
                      IN  StoreValue(r.offset, stack, k.val, PyStr(r.val))

\* parse_section run to the return of the outermost activation
RECURSIVE RunParse(_, _)
RunParse(data, st) ==
    IF st.pc # "parse" THEN st
    ELSE RunParse(data, parse_section(data, st.offset, st.stack))

\* parse_vdf on the bytes of the file: the state it ends in, with the dict
\* returned in out when pc is "done"
parse_vdf(data) ==
    RunParse(data, ParseState(0, <<Frame(<<>>, <<>>)>>, <<>>, "parse"))

----------------------------------------------------------------------------
(* NonSteamGame and VDFSerializer *)

\* StartDir assigned before Exe
FieldNames_dir_first ==
    << "appid", "AppName", "StartDir", "Exe",
       "icon", "ShortcutPath", "LaunchOptions", "IsHidden",
       "AllowDesktopConfig", "AllowOverlay", "OpenVR", "Devkit",
       "DevkitGameID", "DevkitOverrideAppID", "LastPlayTime", "FlatpakAppID",
       "tags" >>

\* the attributes of a NonSteamGame, in the order __init__ assigns them
FieldNames ==
    << "appid", "AppName", "Exe", "StartDir",
       "icon", "ShortcutPath", "LaunchOptions", "IsHidden",
       "AllowDesktopConfig", "AllowOverlay", "OpenVR", "Devkit",
       "DevkitGameID", "DevkitOverrideAppID", "LastPlayTime", "FlatpakAppID",
       "tags" >>

\* the attribute names as the keys of the record's dict
FieldKeys ==
    [ appid |-> <<97, 112, 112, 105, 100>>,
      AppName |-> <<65, 112, 112, 78, 97, 109, 101>>,
      Exe |-> <<69, 120, 101>>,
      StartDir |-> <<83, 116, 97, 114, 116, 68, 105, 114>>,
      icon |-> <<105, 99, 111, 110>>,
      ShortcutPath |-> <<83, 104, 111, 114, 116, 99, 117, 116, 80, 97, 116, 104>>,
      LaunchOptions |-> <<76, 97, 117, 110, 99, 104, 79, 112, 116, 105, 111, 110, 115>>,
      IsHidden |-> <<73, 115, 72, 105, 100, 100, 101, 110>>,
      AllowDesktopConfig |-> <<65, 108, 108, 111, 119, 68, 101, 115, 107, 116, 111, 112, 67, 111, 110, 102, 105, 103>>,
      AllowOverlay |-> <<65, 108, 108, 111, 119, 79, 118, 101, 114, 108, 97, 121>>,
      OpenVR |-> <<79, 112, 101, 110, 86, 82>>,
      Devkit |-> <<68, 101, 118, 107, 105, 116>>,
      DevkitGameID |-> <<68, 101, 118, 107, 105, 116, 71, 97, 109, 101, 73, 68>>,
      DevkitOverrideAppID |-> <<68, 101, 118, 107, 105, 116, 79, 118, 101, 114, 114, 105, 100, 101, 65, 112, 112, 73, 68>>,
      LastPlayTime |-> <<76, 97, 115, 116, 80, 108, 97, 121, 84, 105, 109, 101>>,
      FlatpakAppID |-> <<70, 108, 97, 116, 112, 97, 107, 65, 112, 112, 73, 68>>,
      tags |-> <<116, 97, 103, 115>> ]

NonSteamGame(id, name, exe, dir, icon, ShortcutPath, LaunchOptions, IsHidden, AllowDesktopConfig, AllowOverlay, OpenVR, Devkit, DevkitGameID, DevkitOverrideAppID, LastPlayTime, FlatpakAppID, tags) ==
    [ appid |-> id,
      AppName |-> name,
      Exe |-> exe,
      StartDir |-> dir,
      icon |-> icon,
      ShortcutPath |-> ShortcutPath,
      LaunchOptions |-> LaunchOptions,
      IsHidden |-> IsHidden,
      AllowDesktopConfig |-> AllowDesktopConfig,
      AllowOverlay |-> AllowOverlay,
      OpenVR |-> OpenVR,
      Devkit |-> Devkit,
      DevkitGameID |-> DevkitGameID,
      DevkitOverrideAppID |-> DevkitOverrideAppID,
      LastPlayTime |-> LastPlayTime,
      FlatpakAppID |-> FlatpakAppID,
      tags |-> tags ]

\* the dict without the tags
as_dict_no_tags(game) ==
    [i \in 1..(Len(FieldNames) - 1) |->
        Entry(FieldKeys[FieldNames[i]], game[FieldNames[i]])]

\* game.as_dict(): the attributes in the order they were assigned
as_dict(game) ==
    [i \in 1..Len(FieldNames) |->
        Entry(FieldKeys[FieldNames[i]], game[FieldNames[i]])]

\* "shortcuts"
ShortcutsKey == <<115, 104, 111, 114, 116, 99, 117, 116, 115>>

Zero == PyInt(FALSE, <<>>)

\* the default 1 written as 0
One_as_zero == PyInt(FALSE, <<>>)

One == PyInt(FALSE, <<1>>)

EmptyStr == PyStr(<<>>)

\* the keys count from 1
games_to_vdf_dict_from_one(games) ==
    PyDict(<<Entry(ShortcutsKey,
                   PyDict([n \in 1..Len(games) |->
                       Entry(DecimalDigits(n), PyDict(as_dict(games[n])))]))>>)

\* shortcuts[str(i)] = {**game.as_dict()} for i, game in enumerate(games):
\* games[n] of the 1-based sequence is the game enumerate numbers n - 1, and
\* the keys, all different, are inserted in that order
games_to_vdf_dict(games) ==
    PyDict(<<Entry(ShortcutsKey,
                   PyDict([n \in 1..Len(games) |->
                       Entry(DecimalDigits(n - 1), PyDict(as_dict(games[n])))]))>>)

Loaded(games) == [ok |-> TRUE, games |-> games]

LoadRaised == [ok |-> FALSE, games |-> <<>>]

\* the NonSteamGame built from one child of "shortcuts"
GameFromShortcut(shortcut_data) ==
    NonSteamGame(Get(shortcut_data, FieldKeys.appid, Zero),
                 Get(shortcut_data, FieldKeys.AppName, EmptyStr),
                 Get(shortcut_data, FieldKeys.Exe, EmptyStr),
                 Get(shortcut_data, FieldKeys.StartDir, EmptyStr),
                 Get(shortcut_data, FieldKeys.icon, EmptyStr),
                 Get(shortcut_data, FieldKeys.ShortcutPath, EmptyStr),
                 Get(shortcut_data, FieldKeys.LaunchOptions, EmptyStr),
                 Get(shortcut_data, FieldKeys.IsHidden, Zero),
                 Get(shortcut_data, FieldKeys.AllowDesktopConfig, One),
                 Get(shortcut_data, FieldKeys.AllowOverlay, One),
                 Get(shortcut_data, FieldKeys.OpenVR, Zero),
                 Get(shortcut_data, FieldKeys.Devkit, Zero),
                 Get(shortcut_data, FieldKeys.DevkitGameID, EmptyStr),
                 Get(shortcut_data, FieldKeys.DevkitOverrideAppID, Zero),
                 Get(shortcut_data, FieldKeys.LastPlayTime, Zero),
                 Get(shortcut_data, FieldKeys.FlatpakAppID, EmptyStr),
                 Get(shortcut_data, FieldKeys.tags, PyDict(<<>>)))

\* the list built from vdf_data, or the exception raised: a child that is
\* not a dict has no get (AttributeError); a "shortcuts" that is a number
\* does not iterate and one that is a non-empty string is indexed by its
\* characters (TypeError)
games_from_vdf_dict(vdf_data) ==
    LET shortcuts == Get(vdf_data, ShortcutsKey, PyDict(<<>>))
    IN  IF shortcuts.t = "dict"
        THEN IF \A i \in 1..Len(shortcuts.d) : shortcuts.d[i].v.t = "dict"
             THEN Loaded([i \in 1..Len(shortcuts.d) |->
                             GameFromShortcut(shortcuts.d[i].v.d)])
             ELSE LoadRaised
        ELSE IF shortcuts.t = "str" /\ shortcuts.s = <<>> THEN Loaded(<<>>)
        ELSE LoadRaised

----------------------------------------------------------------------------
(* state *)

VARIABLES
    tree,     \* the dict handed to write_binary_vdf
    data,     \* the bytes of the file
    offset,   \* parse_vdf: the cursor
    stack,    \* parse_vdf: the activations of parse_section, outermost first
    out,      \* parse_vdf: the dict returned
    pc,       \* the codec: "write", "parse", "done", "write_raised" or
              \* "raised"; the repository: "constructed", "changed", "saved",
              \* "save_raised" or "load_raised"; a command: "parsed",
              \* "repository", "loaded", "listed", "no_games", "saved",
              \* "save_raised" or "load_raised"
    games,    \* NonSteamGameRepository.games
    exists,   \* shortcuts_vdf_path.exists()
    game_candidates,  \* NonSteamGameRepository.game_candidates
    appids,   \* the calls of generate_shortcut_appid made so far
    args,     \* the arguments the command line was parsed into
    games_already_added,  \* discovery_service.games_already_added
    validation,  \* a call of find_main_executable: its arguments and outcome
    tags_default  \* the dict that is the default of the tags parameter of
                  \* NonSteamGame.__init__, made once when the def is run

vars ==
    <<tree, data, offset, stack, out, pc, games, exists, game_candidates,
      appids, args, games_already_added, validation, tags_default>>

\* find_main_executable is not called
NoValidation == <<>>

\* no command of the command line is running
NoCommand == [command |-> "", fresh |-> FALSE]

\* the codec run on its own, no repository constructed
NoRepository == games = <<>> /\ exists = TRUE /\ game_candidates = <<>>

\* the most tokens in a file the decoder is given
MaxTokens == 4

Tokens ==
    { <<0>>, <<1>>, <<2>>, <<3>>, <<7>>, <<8>>, <<9>>, <<97>>, <<195>>,
      <<97, 0>>, <<0, 0, 128, 63>> }

TokenSeqs == UNION { [1..n -> Tokens] : n \in 0..MaxTokens }

\* files in which a section with an empty key follows entries: after the
\* String "_subsection_1", after "a" written twice, and after the Strings
\* "_subsection_2" and "a"; the first holds the Int32 "a" = 1
SubsectionBuffers ==
    { <<1, 95, 115, 117, 98, 115, 101, 99, 116, 105, 111, 110, 95, 49, 0, 0,
        0, 0, 2, 97, 0, 1, 0, 0, 0, 8, 8>>,
      <<1, 97, 0, 0, 1, 97, 0, 0, 0, 0, 8>>,
      <<1, 95, 115, 117, 98, 115, 101, 99, 116, 105, 111, 110, 95, 50, 0, 0,
        1, 97, 0, 0, 0, 0, 8>> }

\* files with sections inside sections, each followed by an entry of the
\* section around it: {"a": {"b": {"c": "c"}, "d": "d"}, "e": "e"} with all
\* its end markers, and the same file cut after the "c" entry
NestedBuffers ==
    { <<0, 97, 0, 0, 98, 0, 1, 99, 0, 99, 0, 8, 1, 100, 0, 100, 0, 8,
        1, 101, 0, 101, 0, 8>>,
      <<0, 97, 0, 0, 98, 0, 1, 99, 0, 99, 0>> }

Buffers ==
    { Concat(ts) : ts \in TokenSeqs } \cup SubsectionBuffers \cup NestedBuffers

\* parse_vdf has read the file and calls the outermost parse_section
StartParse(bytes) ==
    /\ data' = bytes
    /\ offset' = 0
    /\ stack' = <<Frame(<<>>, <<>>)>>
    /\ out' = <<>>
    /\ pc' = "parse"

InitDecode ==
    /\ tree = PyDict(<<>>)
    /\ data \in Buffers
    /\ offset = 0
    /\ stack = <<Frame(<<>>, <<>>)>>
    /\ out = <<>>
    /\ pc = "parse"
    /\ NoRepository
    /\ appids = <<>>
    /\ args = NoCommand
    /\ games_already_added = {}
    /\ validation = NoValidation
    /\ tags_default = PyDict(<<>>)

ParseSection ==
    /\ pc = "parse"
    /\ LET st == parse_section(data, offset, stack)
       IN  /\ offset' = st.offset
           /\ stack' = st.stack
           /\ out' = st.out
           /\ pc' = st.pc
    /\ UNCHANGED <<tree, data, games, exists, game_candidates, appids, args, games_already_added, validation, tags_default>>

NextDecode == ParseSection

SpecDecode == InitDecode /\ [][NextDecode]_vars

\* parse_vdf is a function call: once entered it runs until it returns or
\* raises
SpecDecodeRuns == SpecDecode /\ WF_vars(ParseSection)

\* n sections with the key "a", each opened inside the one before
Nested(n) == [i \in 1..(3 * n) |-> IF i % 3 = 2 THEN 97 ELSE 0]

InitDeepDecode ==
    /\ tree = PyDict(<<>>)
    /\ data = Nested(RecursionLimit)
    /\ offset = 0
    /\ stack = <<Frame(<<>>, <<>>)>>
    /\ out = <<>>
    /\ pc = "parse"
    /\ NoRepository
    /\ appids = <<>>
    /\ args = NoCommand
    /\ games_already_added = {}
    /\ validation = NoValidation
    /\ tags_default = PyDict(<<>>)

SpecDeepDecode == InitDeepDecode /\ [][NextDecode]_vars

----------------------------------------------------------------------------
(* trees handed to write_binary_vdf *)

\* the most entries in one section of an input tree
MaxEntries == 2

\* the most sections nested in one another in an input tree, the root included
MaxDepth == 3

Ints ==
    { PyInt(FALSE, <<>>),                                       \* 0
      PyInt(FALSE, <<1>>),                                      \* 1
      PyInt(FALSE, <<255, 255, 255, 127>>),                     \* 2^31 - 1
      PyInt(FALSE, <<0, 0, 0, 128>>),                           \* 2^31
      PyInt(FALSE, <<193, 138, 69, 166>>),                      \* 2789567361
      PyInt(FALSE, <<255, 255, 255, 255>>),                     \* 2^32 - 1
      PyInt(FALSE, <<0, 0, 0, 0, 1>>),                          \* 2^32
      PyInt(FALSE, <<255, 255, 255, 255, 255, 255, 255, 127>>), \* 2^63 - 1
      PyInt(FALSE, <<255, 255, 255, 255, 255, 255, 255, 255>>), \* 2^64 - 1
      PyInt(FALSE, <<0, 0, 0, 0, 0, 0, 0, 0, 1>>),              \* 2^64
      PyInt(TRUE, <<1>>),                                       \* -1
      PyInt(TRUE, <<0, 0, 0, 128>>),                            \* -2^31
      PyInt(TRUE, <<1, 0, 0, 128>>),                            \* -2^31 - 1
      PyInt(TRUE, <<0, 0, 0, 0, 0, 0, 0, 128>>) }               \* -2^63

Floats ==
    { PyFloat(0, 0, 0, 0),                     \* 0.0
      PyFloat(1, 0, 0, 0),                     \* -0.0
      PyFloat(0, 1023, 4194304, 0),            \* 1.5
      PyFloat(0, 1024, 4781506, 300647711),    \* 3.14
      PyFloat(0, 1150, 8388607, 0),            \* the largest float32
      PyFloat(0, 1150, 8388607, 268435456),    \* rounds to 2^128
      PyFloat(0, 1155, 7018831, 298015909),    \* 1e40
      PyFloat(0, 874, 0, 0),                   \* 2^-149
      PyFloat(0, 874, 4194304, 0),             \* 1.5 * 2^-149
      PyFloat(0, 890, 745777, 125261724),      \* 1e-40
      PyFloat(0, 2047, 0, 0),                  \* inf
      PyFloat(0, 2047, 4194304, 0) }           \* nan

Strs ==
    { PyStr(<<>>),                \* ""
      PyStr(<<116>>),             \* "t"
      PyStr(<<233>>),             \* U+00E9
      PyStr(<<19990, 127918>>),   \* U+4E16 U+1F3AE
      PyStr(<<97, 0, 98>>),       \* "a\x00b"
      PyStr(<<55296>>) }          \* a lone surrogate

Atoms == Ints \cup Floats \cup Strs

\* the keys of the first entry of the root
FirstKeys == { <<97>>, <<233>> }

\* the values of the entries after the first; the i-th has the key chr(97 + i)
Followers == { PyStr(<<116>>), PyDict(<<>>) }

FollowerSeqs ==
    UNION { [1..n -> Followers] : n \in 0..(MaxEntries - 1) }

FollowerEntries(fs) == [i \in 1..Len(fs) |-> Entry(<<97 + i>>, fs[i])]

\* the sections whose first entry has a key in K and a value in V
SectionsOver(K, V) ==
    { PyDict(<<>>) } \cup
    { PyDict(<<Entry(k, v)>> \o FollowerEntries(fs)) :
          k \in K, v \in V, fs \in FollowerSeqs }

\* the atoms of the sections nested deeper than the root's children:
\* -1 and 1.5
InnerAtoms == { PyInt(TRUE, <<1>>), PyFloat(0, 1023, 4194304, 0) }

\* the values of the entries of a section at a level (the root is at level
\* 1): every atom in the root and in its children, the inner atoms below,
\* and sections down to level MaxDepth
RECURSIVE ValuesAt(_)
ValuesAt(level) ==
    LET atoms == IF level <= 2 THEN Atoms ELSE InnerAtoms
    IN  IF level >= MaxDepth THEN atoms
        ELSE atoms \cup SectionsOver({ <<97>> }, ValuesAt(level + 1))

\* {"name": "test"}
NameTest == PyDict(<<Entry(<<110, 97, 109, 101>>, PyStr(<<116, 101, 115, 116>>))>>)

\* the first key of the root is "a" before any value, U+00E9 before an atom
Trees ==
    SectionsOver({ <<97>> }, ValuesAt(1))
        \cup SectionsOver(FirstKeys, Atoms)
        \cup { NameTest }

InitRoundTrip ==
    /\ tree \in Trees
    /\ data = <<>>
    /\ offset = 0
    /\ stack = <<>>
    /\ out = <<>>
    /\ pc = "write"
    /\ NoRepository
    /\ appids = <<>>
    /\ args = NoCommand
    /\ games_already_added = {}
    /\ validation = NoValidation
    /\ tags_default = PyDict(<<>>)

\* write_binary_vdf(tree, path) followed by the open and read of parse_vdf
WriteBinaryVdf ==
    /\ pc = "write"
    /\ LET e == write_binary_vdf(tree)
       IN  IF e.ok THEN StartParse(e.bytes)
           ELSE /\ pc' = "write_raised"
                /\ UNCHANGED <<data, offset, stack, out>>
    /\ UNCHANGED <<tree, games, exists, game_candidates, appids, args, games_already_added, validation, tags_default>>

NextRoundTrip == WriteBinaryVdf \/ ParseSection

SpecRoundTrip == InitRoundTrip /\ [][NextRoundTrip]_vars

----------------------------------------------------------------------------
(* NonSteamGameRepository *)

\* the most games a repository holds
MaxGames == 2

\* {"a": {"a": "t"}, "b": {}}
NestedTags ==
    PyDict(<<Entry(<<97>>, PyDict(<<Entry(<<97>>, PyStr(<<116>>))>>)),
             Entry(<<98>>, PyDict(<<>>))>>)

\* a game as discovery or a test builds it: the optional arguments not
\* given take the defaults of __init__
Game(id, name, exe, AllowOverlay, DevkitOverrideAppID, LastPlayTime, tags) ==
    NonSteamGame(id, name, exe, EmptyStr, EmptyStr, EmptyStr, EmptyStr,
                 Zero, One, AllowOverlay, Zero, Zero, EmptyStr,
                 DevkitOverrideAppID, LastPlayTime, EmptyStr, tags)

\* appid 2789567361, "t", U+00E9, LastPlayTime 2^31, nested tags
TaggedGame ==
    Game(PyInt(FALSE, <<193, 138, 69, 166>>), PyStr(<<116>>), PyStr(<<233>>),
         One, Zero, PyInt(FALSE, <<0, 0, 0, 128>>), NestedTags)

\* appid 0, AllowOverlay 0, DevkitOverrideAppID -999, LastPlayTime -1
NegativeGame ==
    Game(Zero, PyStr(<<116>>), EmptyStr,
         Zero, PyInt(TRUE, <<231, 3>>), PyInt(TRUE, <<1>>), PyDict(<<>>))

\* the games add_game is given
NewGames == { NegativeGame }

\* a shortcuts.vdf written by another program, its one game, which add_game
\* is never given, under the key "7"
ForeignShortcuts ==
    PyDict(<<Entry(ShortcutsKey,
                   PyDict(<<Entry(<<55>>, PyDict(as_dict(TaggedGame)))>>))>>)

\* the files found at shortcuts_vdf_path when the program first runs
InitialFiles == { <<8>>, write_binary_vdf(ForeignShortcuts).bytes }

\* load_games_from_vdf(path): the games after the add_game of each game
\* read, or an exception of parse_vdf or of games_from_vdf_dict
load_games_from_vdf(bytes, before) ==
    LET vdf_data == parse_vdf(bytes)
        r == games_from_vdf_dict(vdf_data.out)
    IN  IF vdf_data.pc = "done" /\ r.ok
        THEN Loaded(before \o r.games)
        ELSE [ok |-> FALSE, games |-> before]

\* NonSteamGameRepository(user_id): games starts empty and an existing
\* shortcuts.vdf is loaded
Construct(bytes, there) ==
    IF there THEN load_games_from_vdf(bytes, <<>>)
    ELSE Loaded(<<>>)

InitRepo ==
    /\ tree = PyDict(<<>>)
    /\ exists \in BOOLEAN
    /\ data \in (IF exists THEN InitialFiles ELSE { <<>> })
    /\ offset = 0
    /\ stack = <<>>
    /\ out = <<>>
    /\ games = Construct(data, exists).games
    /\ game_candidates = <<>>
    /\ appids = <<>>
    /\ args = NoCommand
    /\ games_already_added = {}
    /\ validation = NoValidation
    /\ tags_default = PyDict(<<>>)
    /\ pc = "constructed"

\* the program is started again
NewRepository ==
    /\ LET r == Construct(data, exists)
       IN  /\ games' = r.games
           /\ pc' = IF r.ok THEN "constructed" ELSE "load_raised"
    /\ UNCHANGED <<tree, data, offset, stack, out, exists, game_candidates, appids, args, games_already_added, validation, tags_default>>

\* add_game(game)
AddGame ==
    /\ pc # "load_raised"
    /\ Len(games) < MaxGames
    /\ \E game \in NewGames : games' = Append(games, game)
    /\ pc' = "changed"
    /\ UNCHANGED <<tree, data, offset, stack, out, exists, game_candidates, appids, args, games_already_added, validation, tags_default>>

\* load_games_from_vdf(shortcuts_path) on a repository already constructed
LoadGamesFromVdf ==
    /\ pc # "load_raised"
    /\ exists
    /\ LET r == load_games_from_vdf(data, games)
       IN  /\ Len(r.games) <= MaxGames
           /\ games' = r.games
           /\ pc' = IF r.ok THEN "changed" ELSE "load_raised"
    /\ UNCHANGED <<tree, data, offset, stack, out, exists, game_candidates, appids, args, games_already_added, validation, tags_default>>

\* steam_repo.games.remove(game_to_remove)
RemoveGame ==
    /\ pc # "load_raised"
    /\ \E i \in 1..Len(games) :
          games' = SubSeq(games, 1, i - 1) \o SubSeq(games, i + 1, Len(games))
    /\ pc' = "changed"
    /\ UNCHANGED <<tree, data, offset, stack, out, exists, game_candidates, appids, args, games_already_added, validation, tags_default>>

\* repo.games = []
ClearGames ==
    /\ pc # "load_raised"
    /\ games # <<>>
    /\ games' = <<>>
    /\ pc' = "changed"
    /\ UNCHANGED <<tree, data, offset, stack, out, exists, game_candidates, appids, args, games_already_added, validation, tags_default>>

\* save_games_as_vdf(): the file is unlinked, then the games are mapped and
\* encoded, then the file is written
SaveGamesAsVdf ==
    /\ pc # "load_raised"
    /\ LET vdf_data == games_to_vdf_dict(games)
           e == write_binary_vdf(vdf_data)
       IN  /\ tree' = vdf_data
           /\ data' = IF e.ok THEN e.bytes ELSE <<>>
           /\ exists' = e.ok
           /\ pc' = IF e.ok THEN "saved" ELSE "save_raised"
    /\ UNCHANGED <<offset, stack, out, games, game_candidates, appids, args, games_already_added, validation, tags_default>>

\* a game whose LastPlayTime is the float 1e40, which struct.pack('<f')
\* refuses
OverflowGame ==
    Game(One, PyStr(<<117>>), PyStr(<<101>>), One, Zero,
         PyFloat(0, 1155, 7018831, 298015909), PyDict(<<>>))

\* add_game(game) with a game write_binary_vdf cannot encode
AddGameNotEncodable ==
    /\ pc # "load_raised"
    /\ Len(games) < MaxGames
    /\ games' = Append(games, OverflowGame)
    /\ pc' = "changed"
    /\ UNCHANGED <<tree, data, offset, stack, out, exists, game_candidates, appids, args, games_already_added, validation, tags_default>>

NextRepo ==
    \/ NewRepository
    \/ AddGame
    \/ LoadGamesFromVdf
    \/ RemoveGame
    \/ ClearGames
    \/ SaveGamesAsVdf

SpecRepo == InitRepo /\ [][NextRepo]_vars

NextSave == NextRepo \/ AddGameNotEncodable

\* the repository given any game
SpecSave == InitRepo /\ [][NextSave]_vars

----------------------------------------------------------------------------
(* VDFSerializer.games_from_vdf_dict on the dicts it can be given *)

\* the most children of "shortcuts" in a dict given to games_from_vdf_dict
MaxShortcuts == 2

\* a game with no field at its default (test_init_all_parameters, with
\* short strings and a different number in every integer field)
FullGame ==
    NonSteamGame(PyInt(FALSE, <<64, 226, 1>>), PyStr(<<110>>), PyStr(<<101>>),
                 PyStr(<<100>>), PyStr(<<105>>), PyStr(<<112>>), PyStr(<<108>>),
                 PyInt(FALSE, <<2>>), Zero, PyInt(FALSE, <<3>>),
                 PyInt(FALSE, <<4>>), PyInt(FALSE, <<5>>), PyStr(<<103>>),
                 PyInt(FALSE, <<21, 3>>), PyInt(FALSE, <<210, 2, 150, 73>>),
                 PyStr(<<102>>), PyDict(<<Entry(<<97>>, PyStr(<<116>>))>>))

\* entries without the i-th
Without(entries, i) ==
    SubSeq(entries, 1, i - 1) \o SubSeq(entries, i + 1, Len(entries))

Reversed(entries) ==
    [i \in 1..Len(entries) |-> entries[Len(entries) + 1 - i]]

\* "extra"
ExtraKey == <<101, 120, 116, 114, 97>>

\* the sections a file can hold for a game: every field, every field but
\* one, the four required fields alone, none, every field in another order,
\* and every field after a key that is not of the schema
ShortcutSections ==
    { PyDict(as_dict(FullGame)),
      PyDict(SubSeq(as_dict(FullGame), 1, 4)),
      PyDict(<<>>),
      PyDict(Reversed(as_dict(FullGame))),
      PyDict(<<Entry(ExtraKey, PyInt(FALSE, <<5>>))>> \o as_dict(FullGame)) }
        \cup { PyDict(Without(as_dict(FullGame), i)) : i \in 1..Len(FieldNames) }

\* "not a dict"
NotADict == PyStr(<<110, 111, 116, 32, 97, 32, 100, 105, 99, 116>>)

\* the children of "shortcuts": sections, a string and a number
ShortcutChildren == ShortcutSections \cup { NotADict, PyInt(FALSE, <<5>>) }

\* the key of the n-th child: "", "999", "998", ...
ChildKey(n) == IF n = 1 THEN <<>> ELSE DecimalDigits(1001 - n)

ChildSeqs == UNION { [1..n -> ShortcutChildren] : n \in 0..MaxShortcuts }

\* the dicts handed to games_from_vdf_dict: with "shortcuts" a section of
\* such children, a string or a number, and without "shortcuts"
VdfDicts ==
    { PyDict(<<Entry(ShortcutsKey,
                     PyDict([n \in 1..Len(cs) |-> Entry(ChildKey(n), cs[n])]))>>) :
          cs \in ChildSeqs }
        \cup { PyDict(<<Entry(ShortcutsKey, v)>>) :
                  v \in { EmptyStr, NotADict, PyInt(FALSE, <<5>>) } }
        \cup { PyDict(<<>>),
               PyDict(<<Entry(ExtraKey, PyDict(as_dict(FullGame)))>>) }

InitFromVdf ==
    /\ tree \in VdfDicts
    /\ data = <<>>
    /\ offset = 0
    /\ stack = <<>>
    /\ out = <<>>
    /\ pc = "map"
    /\ NoRepository
    /\ appids = <<>>
    /\ args = NoCommand
    /\ games_already_added = {}
    /\ validation = NoValidation
    /\ tags_default = PyDict(<<>>)

\* games = games_from_vdf_dict(vdf_data)
GamesFromVdfDict ==
    /\ pc = "map"
    /\ LET r == games_from_vdf_dict(tree.d)
       IN  /\ games' = r.games
           /\ pc' = IF r.ok THEN "mapped" ELSE "map_raised"
    /\ UNCHANGED <<tree, data, offset, stack, out, exists, game_candidates, appids, args, games_already_added, validation, tags_default>>

NextFromVdf == GamesFromVdfDict

SpecFromVdf == InitFromVdf /\ [][NextFromVdf]_vars

----------------------------------------------------------------------------
(* generate_shortcut_appid *)

\* a 32-bit word as its bits, bit 0 first
Bits(n, width) == [i \in 1..width |-> (n \div (2 ^ (i - 1))) % 2]

Xor(a, b) == SubSeq([i \in 1..Len(a) |-> (a[i] + b[i]) % 2], 1, Len(a))

\* 0xEDB88320, the polynomial of zlib's CRC-32 in reflected form
CrcPoly ==
    << 0, 0, 0, 0, 0, 1, 0, 0,
       1, 1, 0, 0, 0, 0, 0, 1,
       0, 0, 0, 1, 1, 1, 0, 1,
       1, 0, 1, 1, 0, 1, 1, 1 >>

\* one bit of the message taken in: the word shifted right, the polynomial
\* added when the bit shifted out is set
RECURSIVE CrcShift(_, _)
CrcShift(crc, rounds) ==
    IF rounds = 0 THEN crc
    ELSE IF crc[1] = 1
         THEN CrcShift(Xor(Tail(crc) \o <<0>>, CrcPoly), rounds - 1)
         ELSE CrcShift(Tail(crc) \o <<0>>, rounds - 1)

\* crc_table[2^(j-1)] for j in 1..8; the other entries are sums of these
CrcTable ==
    [j \in 1..8 |-> CrcShift([i \in 1..32 |-> IF i = j THEN 1 ELSE 0], 8)]

\* crc = crc_table[(crc ^ byte) & 0xff] ^ (crc >> 8)
CrcByte(crc, byte) ==
    LET index == Xor(SubSeq(crc, 1, 8), Bits(byte, 8))
    IN  SubSeq([i \in 1..32 |->
                   ((IF i <= 24 THEN crc[i + 8] ELSE 0)
                    + index[1] * CrcTable[1][i] + index[2] * CrcTable[2][i]
                    + index[3] * CrcTable[3][i] + index[4] * CrcTable[4][i]
                    + index[5] * CrcTable[5][i] + index[6] * CrcTable[6][i]
                    + index[7] * CrcTable[7][i] + index[8] * CrcTable[8][i]) % 2],
               1, 32)

\* the register after the bytes lo..hi: the first half, then the second
\* (the register between the halves is computed before it is passed on)
RECURSIVE CrcUpdate(_, _, _, _)
CrcUpdate(crc, bytes, lo, hi) ==
    IF lo > hi THEN crc
    ELSE IF lo = hi THEN CrcByte(crc, bytes[lo])
    ELSE LET mid == (lo + hi) \div 2
         IN  CHOOSE after \in
                 { CrcUpdate(half, bytes, mid + 1, hi) :
                       half \in { CrcUpdate(crc, bytes, lo, mid) } } : TRUE

\* zlib.crc32(bytes): the register starts at 0xFFFFFFFF and is inverted at
\* the end
crc32(bytes) ==
    Xor(CrcUpdate([i \in 1..32 |-> 1], bytes, 1, Len(bytes)),
        [i \in 1..32 |-> 1])

Mask32(bits) == SubSeq(bits, 1, 32)

\* the step skipped
OrHighBit_skipped(bits) == bits

\* x | 0x80000000
OrHighBit(bits) == [bits EXCEPT ![32] = 1]

\* the int of a word
IntOfBits(bits) ==
    LET byte(k) ==
            bits[8 * k + 1] + 2 * bits[8 * k + 2] + 4 * bits[8 * k + 3]
                + 8 * bits[8 * k + 4] + 16 * bits[8 * k + 5]
                + 32 * bits[8 * k + 6] + 64 * bits[8 * k + 7]
                + 128 * bits[8 * k + 8]
    IN  PyInt(FALSE, Strip([k \in 1..4 |-> byte(k - 1)]))

\* name + exe
ShortcutKey_name_first(name, exe) == name \o exe

\* key = exe + name
ShortcutKey(name, exe) == exe \o name

\* the name left out of the key
generate_shortcut_appid_exe_only(name, exe) ==
    IntOfBits(OrHighBit(Mask32(crc32(Utf8Encode(exe)))))

generate_shortcut_appid(name, exe) ==
    LET key == ShortcutKey(name, exe)
        crc == Mask32(crc32(Utf8Encode(key)))
        appid == OrHighBit(crc)
    IN  IntOfBits(appid)


\* how many calls of generate_shortcut_appid a behaviour makes
MaxCalls == 2

\* the (name, exe) pairs of the unit tests, then short pairs: two with the
\* same concatenation "/abc", two with the concatenation "a", pairs that
\* differ in the name only, the empty pair and one beyond ASCII
AppIdInputs ==
    { <<<<84, 101, 115, 116, 71, 97, 109, 101>>, <<116, 101, 115, 116, 46, 101, 120, 101>>>>,
      <<<<71, 97, 109, 101, 32, 65>>, <<47, 112, 97, 116, 104, 47, 97, 46, 101, 120, 101>>>>,
      <<<<71, 97, 109, 101, 32, 66>>, <<47, 112, 97, 116, 104, 47, 98, 46, 101, 120, 101>>>>,
      <<<<71, 97, 109, 101, 32, 65>>, <<47, 112, 97, 116, 104, 47, 98, 46, 101, 120, 101>>>>,
      <<<<98, 99>>, <<47, 97>>>>,
      <<<<99>>, <<47, 97, 98>>>>,
      <<<<99>>, <<47, 97>>>>,
      <<<<98>>, <<47, 97>>>>,
      <<<<97>>, <<>>>>,
      <<<<>>, <<97>>>>,
      <<<<>>, <<>>>>,
      <<<<233>>, <<47>>>> }

InitAppId ==
    /\ tree = PyDict(<<>>)
    /\ data = <<>>
    /\ offset = 0
    /\ stack = <<>>
    /\ out = <<>>
    /\ pc = "call"
    /\ NoRepository
    /\ appids = <<>>
    /\ args = NoCommand
    /\ games_already_added = {}
    /\ validation = NoValidation
    /\ tags_default = PyDict(<<>>)

\* one call appid = generate_shortcut_appid(name, exe), remembered with its
\* arguments
GenerateShortcutAppid ==
    /\ pc = "call"
    /\ Len(appids) < MaxCalls
    /\ \E input \in AppIdInputs :
           appids' =
               Append(appids,
                      [name |-> input[1], exe |-> input[2],
                       appid |-> generate_shortcut_appid(input[1], input[2])])
    /\ UNCHANGED <<tree, data, offset, stack, out, pc, games, exists,
                   game_candidates, args, games_already_added, validation,
                   tags_default>>

NextAppId == GenerateShortcutAppid

SpecAppId == InitAppId /\ [][NextAppId]_vars


----------------------------------------------------------------------------
(* GameDiscoveryService and NonSteamGameRepository.load_games_from_directory *)

None == [t |-> "none", s |-> <<>>, neg |-> FALSE, d |-> <<>>]

\* a directory as discovery sees it: its name, what the database answers
\* for the name, and the main executable the validator picks among the
\* valid ones
Directory(name, steam_id, main_exe) ==
    [name |-> name, steam_id |-> steam_id, main_exe |-> main_exe]

\* valid_exes is empty
NoExecutable == <<>>

\* the directories under "/g": five known games with the executable beside
\* or below "bin", "x" which the database does not know and "d" which holds
\* no valid executable
Directories ==
    { Directory(<<97>>, PyInt(FALSE, <<10>>),
                <<47, 103, 47, 97, 47, 97, 46, 101, 120, 101>>),
      Directory(<<97>>, PyInt(FALSE, <<10>>),
                <<47, 103, 47, 97, 47, 98, 105, 110, 47, 109, 46, 101, 120, 101>>),
      Directory(<<98>>, PyInt(FALSE, <<20>>),
                <<47, 103, 47, 98, 47, 98, 46, 101, 120, 101>>),
      Directory(<<98>>, PyInt(FALSE, <<20>>),
                <<47, 103, 47, 98, 47, 98, 105, 110, 47, 109, 46, 101, 120, 101>>),
      Directory(<<77, 111, 99, 107, 32, 71, 97, 109, 101>>, PyInt(FALSE, <<64, 226, 1>>),
                <<47, 103, 47, 77, 111, 99, 107, 32, 71, 97, 109, 101, 47, 109, 111, 99, 107, 46, 101, 120, 101>>),
      Directory(<<77, 111, 99, 107, 32, 71, 97, 109, 101>>, PyInt(FALSE, <<64, 226, 1>>),
                <<47, 103, 47, 77, 111, 99, 107, 32, 71, 97, 109, 101, 47, 98, 105, 110, 47, 109, 46, 101, 120, 101>>),
      Directory(<<84, 101, 115, 116, 71, 97, 109, 101>>, PyInt(FALSE, <<220>>),
                <<47, 103, 47, 84, 101, 115, 116, 71, 97, 109, 101, 47, 116, 101, 115, 116, 46, 101, 120, 101>>),
      Directory(<<84, 101, 115, 116, 71, 97, 109, 101>>, PyInt(FALSE, <<220>>),
                <<47, 103, 47, 84, 101, 115, 116, 71, 97, 109, 101, 47, 98, 105, 110, 47, 109, 46, 101, 120, 101>>),
      Directory(<<99>>, PyInt(FALSE, <<218, 2>>),
                <<47, 103, 47, 99, 47, 99, 46, 101, 120, 101>>),
      Directory(<<99>>, PyInt(FALSE, <<218, 2>>),
                <<47, 103, 47, 99, 47, 98, 105, 110, 47, 109, 46, 101, 120, 101>>),
      Directory(<<120>>, None,
                <<47, 103, 47, 120, 47, 120, 46, 101, 120, 101>>),
      Directory(<<100>>, PyInt(FALSE, <<184, 1>>), NoExecutable) }

\* the index of the last "/" of a path, 0 when it has none
RECURSIVE LastSlash(_, _)
LastSlash(path, i) ==
    IF i = 0 THEN 0
    ELSE IF path[i] = 47 THEN i
    ELSE LastSlash(path, i - 1)

\* main_exe.parent as str() shows it
Parent(path) ==
    LET i == LastSlash(path, Len(path))
    IN  IF i = 0 THEN <<46>>
        ELSE IF i = 1 THEN <<47>>
        ELSE SubSeq(path, 1, i - 1)

GameCandidate(steam_id, shortcut_id, name, exe_path, start_dir) ==
    [steam_id |-> steam_id, shortcut_id |-> shortcut_id, name |-> name,
     exe_path |-> exe_path, start_dir |-> start_dir]

\* not steam_id
NoSteamId(steam_id) ==
    steam_id = None \/ (steam_id.t = "int" /\ steam_id.s = <<>>)

\* _process_directory(directory): a candidate, or None
process_directory(directory) ==
    IF NoSteamId(directory.steam_id) THEN None
    ELSE IF directory.main_exe = NoExecutable THEN None
    ELSE GameCandidate(directory.steam_id,
                       generate_shortcut_appid(directory.name,
                                               directory.main_exe),
                       directory.name,
                       directory.main_exe,
                       Parent(directory.main_exe))

\* what each directory yields
Processed == [directory \in Directories |-> process_directory(directory)]

\* discover_games_from_directory(path): the candidates of the directories
\* listed, in the order of the listing
RECURSIVE discover_games_from_directory(_)
discover_games_from_directory(listing) ==
    IF listing = <<>> THEN <<>>
    ELSE LET candidate == Processed[Head(listing)]
             rest == discover_games_from_directory(Tail(listing))
         IN  IF candidate = None THEN rest ELSE <<candidate>> \o rest

\* NonSteamGame.from_candidate(candidate)
from_candidate(candidate) ==
    NonSteamGame(candidate.steam_id, PyStr(candidate.name),
                 PyStr(candidate.exe_path), PyStr(candidate.start_dir),
                 EmptyStr, EmptyStr, EmptyStr, Zero, One, One, Zero, Zero,
                 EmptyStr, Zero, Zero, EmptyStr, PyDict(<<>>))

\* path.iterdir(): directories of different names, in any order
Listings ==
    { listing \in UNION { [1..n -> Directories] : n \in 0..MaxGames } :
        \A i, j \in DOMAIN listing :
            i # j => listing[i].name # listing[j].name }

\* a repository constructed where no shortcuts.vdf exists
InitDiscovery ==
    /\ tree = PyDict(<<>>)
    /\ data = <<>>
    /\ offset = 0
    /\ stack = <<>>
    /\ out = <<>>
    /\ pc = "constructed"
    /\ games = <<>>
    /\ exists = FALSE
    /\ game_candidates = <<>>
    /\ appids = <<>>
    /\ args = NoCommand
    /\ games_already_added = {}
    /\ validation = NoValidation
    /\ tags_default = PyDict(<<>>)

\* load_games_from_directory(path)
LoadGamesFromDirectory ==
    /\ \E listing \in Listings :
           LET candidates == discover_games_from_directory(listing)
           IN  /\ Len(games) + Len(candidates) <= MaxGames
               /\ game_candidates' = game_candidates \o candidates
               /\ games' =
                      games \o [i \in 1..Len(candidates) |->
                                   from_candidate(candidates[i])]
    /\ pc' = "changed"
    /\ UNCHANGED <<tree, data, offset, stack, out, exists, appids, args, games_already_added, validation, tags_default>>

NextDiscovery == LoadGamesFromDirectory

SpecDiscovery == InitDiscovery /\ [][NextDiscovery]_vars

----------------------------------------------------------------------------
(* the discover command of the command line, and the script main.py *)

\* {game.AppName for game in self.games}
AppNames(loaded) == { loaded[i].AppName : i \in 1..Len(loaded) }

\* discover_games_from_directory of the service the repository builds with
\* added_games: a directory whose name is already added yields no candidate
RECURSIVE discover_new_games(_, _)
discover_new_games(listing, added) ==
    IF listing = <<>> THEN <<>>
    ELSE LET directory == Head(listing)
             candidate == IF PyStr(directory.name) \in added THEN None
                          ELSE Processed[directory]
             rest == discover_new_games(Tail(listing), added)
         IN  IF candidate = None THEN rest ELSE <<candidate>> \o rest

\* the games an earlier run of discover found in "/g/a" and "/g/b"
ShelfGames ==
    [i \in 1..2 |->
        from_candidate(
            Processed[Directory(<<96 + i>>, PyInt(FALSE, <<10 * i>>),
                                <<47, 103, 47, 96 + i, 47, 96 + i, 46, 101,
                                  120, 101>>)])]

\* the shortcuts.vdf a command finds: none of the repository's, an empty
\* one, one written by another program, and the ones an earlier run saved
\* with one game and with two
CommandFiles ==
    InitialFiles \cup
    { write_binary_vdf(games_to_vdf_dict(SubSeq(ShelfGames, 1, n))).bytes :
          n \in 1..2 }

\* discover [--fresh] <directory>, or main.py <directory>
Commands ==
    { [command |-> "discover", fresh |-> FALSE],
      [command |-> "discover", fresh |-> TRUE],
      [command |-> "main", fresh |-> FALSE] }

InitCommand ==
    /\ tree = PyDict(<<>>)
    /\ exists \in BOOLEAN
    /\ data \in (IF exists THEN CommandFiles ELSE { <<>> })
    /\ offset = 0
    /\ stack = <<>>
    /\ out = <<>>
    /\ games = <<>>
    /\ game_candidates = <<>>
    /\ appids = <<>>
    /\ args \in Commands
    /\ games_already_added = {}
    /\ validation = NoValidation
    /\ tags_default = PyDict(<<>>)
    /\ pc = "parsed"

\* repo = NonSteamGameRepository(user_id=user.id)
CreateRepository ==
    /\ pc = "parsed"
    /\ LET r == Construct(data, exists)
       IN  /\ games' = r.games
           /\ games_already_added' = AppNames(r.games)
           /\ pc' = IF r.ok THEN "repository" ELSE "load_raised"
    /\ UNCHANGED <<tree, data, offset, stack, out, exists, game_candidates,
                   appids, args, validation, tags_default>>

\* if shortcuts_path.exists() and not args.fresh:
\*     repo.load_games_from_vdf(shortcuts_path)
LoadExistingShortcuts ==
    /\ pc = "repository"
    /\ IF exists /\ ~args.fresh
       THEN LET r == load_games_from_vdf(data, games)
            IN  /\ games' = r.games
                /\ pc' = IF r.ok THEN "loaded" ELSE "load_raised"
       ELSE /\ games' = games
            /\ pc' = "loaded"
    /\ UNCHANGED <<tree, data, offset, stack, out, exists, game_candidates,
                   appids, args, games_already_added, validation, tags_default>>

\* repo.load_games_from_directory(games_path) and the list printed;
\* discover returns when the repository holds no game
DiscoverGames ==
    /\ pc = "loaded"
    /\ \E listing \in Listings :
           LET candidates == discover_new_games(listing, games_already_added)
           IN  /\ game_candidates' = game_candidates \o candidates
               /\ games' =
                      games \o [i \in 1..Len(candidates) |->
                                   from_candidate(candidates[i])]
    /\ pc' = IF args.command = "discover" /\ games' = <<>> THEN "no_games"
             ELSE "listed"
    /\ UNCHANGED <<tree, data, offset, stack, out, exists, appids, args,
                   games_already_added, validation, tags_default>>

\* the user confirms and repo.save_games_as_vdf(shortcuts_path) runs
SaveDiscovered ==
    /\ pc = "listed"
    /\ LET vdf_data == games_to_vdf_dict(games)
           e == write_binary_vdf(vdf_data)
       IN  /\ tree' = vdf_data
           /\ data' = IF e.ok THEN e.bytes ELSE <<>>
           /\ exists' = e.ok
           /\ pc' = IF e.ok THEN "saved" ELSE "save_raised"
    /\ UNCHANGED <<offset, stack, out, games, game_candidates, appids, args,
                   games_already_added, validation, tags_default>>

NextCommand ==
    \/ CreateRepository
    \/ LoadExistingShortcuts
    \/ DiscoverGames
    \/ SaveDiscovered

SpecCommand == InitCommand /\ [][NextCommand]_vars

----------------------------------------------------------------------------
(* GameValidator.find_main_executable *)

\* the most executables in the list find_main_executable is given
MaxExes == 3

\* an executable: the stem of its path, its size, and whether stat() on
\* it succeeds
Exe(stem, st_size, stat_ok) ==
    [stem |-> stem, st_size |-> st_size, stat_ok |-> stat_ok]

\* str.lower() on ASCII text
Lower(string) ==
    [i \in 1..Len(string) |->
        IF string[i] >= 65 /\ string[i] <= 90 THEN string[i] + 32
        ELSE string[i]]

\* str.replace(" ", "")
RECURSIVE RemoveSpaces(_)
RemoveSpaces(string) ==
    IF string = <<>> THEN <<>>
    ELSE IF Head(string) = 32 THEN RemoveSpaces(Tail(string))
    ELSE <<Head(string)>> \o RemoveSpaces(Tail(string))

\* exe.stem.lower() == game_name.lower()
ExactMatch(exe, game_name) == Lower(exe.stem) = Lower(game_name)

\* exe.stem.replace(" ", "").lower() == game_name.replace(" ", "").lower()
SpacelessMatch(exe, game_name) ==
    Lower(RemoveSpaces(exe.stem)) = Lower(RemoveSpaces(game_name))

safe_get_size(exe) == IF exe.stat_ok THEN exe.st_size ELSE 0

\* the for loop: the index of the first executable that matches either
\* way, 0 when the loop ends without a return
RECURSIVE FirstMatch(_, _, _)
FirstMatch(valid_exes, game_name, i) ==
    IF i > Len(valid_exes) THEN 0
    ELSE IF ExactMatch(valid_exes[i], game_name) THEN i
    ELSE IF SpacelessMatch(valid_exes[i], game_name) THEN i
    ELSE FirstMatch(valid_exes, game_name, i + 1)

\* max(valid_exes, key=safe_get_size): the first of the largest
Largest(valid_exes) ==
    CHOOSE i \in 1..Len(valid_exes) :
        /\ \A j \in 1..Len(valid_exes) :
               safe_get_size(valid_exes[j]) <= safe_get_size(valid_exes[i])
        /\ \A j \in 1..(i - 1) :
               safe_get_size(valid_exes[j]) < safe_get_size(valid_exes[i])

\* the executable returned, or ValueError
find_main_executable(valid_exes, game_name) ==
    IF valid_exes = <<>> THEN [raised |-> "ValueError", exe |-> None]
    ELSE LET i == FirstMatch(valid_exes, game_name, 1)
         IN  IF i # 0 THEN [raised |-> "", exe |-> valid_exes[i]]
             ELSE [raised |-> "", exe |-> valid_exes[Largest(valid_exes)]]

\* game.exe, TestGame.exe, Test Game.exe, testgame.exe, small.exe (5
\* bytes), large.exe (37 bytes) and game1.exe, larger but not readable
Exes ==
    { Exe(<<103, 97, 109, 101>>, 5, TRUE),
      Exe(<<84, 101, 115, 116, 71, 97, 109, 101>>, 5, TRUE),
      Exe(<<84, 101, 115, 116, 32, 71, 97, 109, 101>>, 5, TRUE),
      Exe(<<116, 101, 115, 116, 103, 97, 109, 101>>, 4, TRUE),
      Exe(<<115, 109, 97, 108, 108>>, 5, TRUE),
      Exe(<<108, 97, 114, 103, 101>>, 37, TRUE),
      Exe(<<103, 97, 109, 101, 49>>, 50, FALSE) }

\* lists of different executables
ExeLists ==
    { list \in UNION { [1..n -> Exes] : n \in 0..MaxExes } :
        \A i, j \in DOMAIN list : i # j => list[i] # list[j] }

\* "TestGame", "Test Game", "NoMatch"
GameNames ==
    { <<84, 101, 115, 116, 71, 97, 109, 101>>,
      <<84, 101, 115, 116, 32, 71, 97, 109, 101>>,
      <<78, 111, 77, 97, 116, 99, 104>> }

Pending == [raised |-> "pending", exe |-> None]

InitValidator ==
    /\ tree = PyDict(<<>>)
    /\ data = <<>>
    /\ offset = 0
    /\ stack = <<>>
    /\ out = <<>>
    /\ pc = "call"
    /\ NoRepository
    /\ appids = <<>>
    /\ args = NoCommand
    /\ games_already_added = {}
    /\ validation \in
           { [valid_exes |-> list, game_name |-> name, returned |-> Pending] :
                 list \in ExeLists, name \in GameNames }
    /\ tags_default = PyDict(<<>>)

\* validator.find_main_executable(valid_exes, name)
FindMainExecutable ==
    /\ pc = "call"
    /\ validation # NoValidation
    /\ validation' =
           [validation EXCEPT !.returned =
                find_main_executable(validation.valid_exes,
                                     validation.game_name)]
    /\ pc' = "done"
    /\ UNCHANGED <<tree, data, offset, stack, out, games, exists,
                   game_candidates, appids, args, games_already_added,
                   tags_default>>

NextValidator == FindMainExecutable

SpecValidator == InitValidator /\ [][NextValidator]_vars

----------------------------------------------------------------------------
(* a file loaded, saved as loaded, and loaded again *)

\* a file read from disk, nothing handed to write_binary_vdf yet
InitReload ==
    /\ tree = None
    /\ data \in Buffers
    /\ offset = 0
    /\ stack = <<>>
    /\ out = <<>>
    /\ pc = "load"
    /\ NoRepository
    /\ appids = <<>>
    /\ args = NoCommand
    /\ games_already_added = {}
    /\ validation = NoValidation
    /\ tags_default = PyDict(<<>>)

\* parse_vdf(path), the first time and after the save
ParseVdf ==
    /\ pc \in { "load", "saved" }
    /\ LET st == parse_vdf(data)
       IN  /\ offset' = st.offset
           /\ stack' = st.stack
           /\ out' = st.out
           /\ pc' = IF st.pc = "raised" THEN "raised"
                    ELSE IF pc = "load" THEN "loaded" ELSE "reloaded"
    /\ UNCHANGED <<tree, data, games, exists, game_candidates, appids, args,
                   games_already_added, validation, tags_default>>

\* write_binary_vdf(vdf_data, path) with the dict parse_vdf returned
WriteLoaded ==
    /\ pc = "loaded"
    /\ LET e == write_binary_vdf(PyDict(out))
       IN  /\ tree' = PyDict(out)
           /\ data' = IF e.ok THEN e.bytes ELSE data
           /\ pc' = IF e.ok THEN "saved" ELSE "write_raised"
    /\ UNCHANGED <<offset, stack, out, games, exists, game_candidates, appids,
                   args, games_already_added, validation, tags_default>>

NextReload == ParseVdf \/ WriteLoaded

SpecReload == InitReload /\ [][NextReload]_vars

----------------------------------------------------------------------------
(* NonSteamGame records and the dicts that are their tags *)

\* the most records made
MaxRecords == 3

\* self.tags of a record made with no tags argument: the dict of the
\* parameter's default, the same object in each of them
DefaultTags == [t |-> "default", s |-> <<>>, neg |-> FALSE, d |-> <<>>]

\* game.tags: the dict the attribute refers to
Tags(game) == IF game.tags = DefaultTags THEN tags_default ELSE game.tags

\* the candidates discovery makes
Candidates == { Processed[directory] : directory \in Directories } \ { None }

\* the tags "x" and "y", each "1" or "2"
TagKeys == { <<120>>, <<121>> }

TagValues == { PyStr(<<49>>), PyStr(<<50>>) }

InitTags ==
    /\ tree = PyDict(<<>>)
    /\ data = <<>>
    /\ offset = 0
    /\ stack = <<>>
    /\ out = <<>>
    /\ pc = "records"
    /\ games = <<>>
    /\ exists = FALSE
    /\ game_candidates = <<>>
    /\ appids = <<>>
    /\ args = NoCommand
    /\ games_already_added = {}
    /\ validation = NoValidation
    /\ tags_default = PyDict(<<>>)

\* NonSteamGame(id, name, exe, dir): tags is the default
NewGame ==
    /\ pc = "records"
    /\ Len(games) < MaxRecords
    /\ games' = Append(games,
                       NonSteamGame(PyInt(FALSE, <<Len(games) + 1>>),
                                    PyStr(<<103>>), PyStr(<<101>>),
                                    PyStr(<<100>>), EmptyStr, EmptyStr,
                                    EmptyStr, Zero, One, One, Zero, Zero,
                                    EmptyStr, Zero, Zero, EmptyStr,
                                    DefaultTags))
    /\ UNCHANGED <<tree, data, offset, stack, out, pc, exists,
                   game_candidates, appids, args, games_already_added,
                   validation, tags_default>>

\* NonSteamGame.from_candidate(candidate): cls(id=, name=, exe=, dir=), tags
\* is the default
NewGameFromCandidate ==
    /\ pc = "records"
    /\ Len(games) < MaxRecords
    /\ \E candidate \in Candidates :
           games' = Append(games, [from_candidate(candidate)
                                      EXCEPT !.tags = DefaultTags])
    /\ UNCHANGED <<tree, data, offset, stack, out, pc, exists,
                   game_candidates, appids, args, games_already_added,
                   validation, tags_default>>

\* NonSteamGame(id, name, exe, dir, tags={}): a dict of the caller's
NewGameWithTags ==
    /\ pc = "records"
    /\ Len(games) < MaxRecords
    /\ games' = Append(games,
                       NonSteamGame(PyInt(FALSE, <<Len(games) + 1>>),
                                    PyStr(<<103>>), PyStr(<<101>>),
                                    PyStr(<<100>>), EmptyStr, EmptyStr,
                                    EmptyStr, Zero, One, One, Zero, Zero,
                                    EmptyStr, Zero, Zero, EmptyStr,
                                    PyDict(<<>>)))
    /\ UNCHANGED <<tree, data, offset, stack, out, pc, exists,
                   game_candidates, appids, args, games_already_added,
                   validation, tags_default>>

\* game.tags[key] = value on one of the records
SetTag ==
    /\ pc = "records"
    /\ \E i \in 1..Len(games), key \in TagKeys, value \in TagValues :
           IF games[i].tags = DefaultTags
           THEN /\ tags_default' =
                       PyDict(DictSet(tags_default.d, PyStr(key), value))
                /\ UNCHANGED games
           ELSE /\ games' = [games EXCEPT ![i].tags =
                                PyDict(DictSet(games[i].tags.d, PyStr(key),
                                               value))]
                /\ UNCHANGED tags_default
    /\ UNCHANGED <<tree, data, offset, stack, out, pc, exists,
                   game_candidates, appids, args, games_already_added,
                   validation>>

NextTags == NewGame \/ NewGameFromCandidate \/ NewGameWithTags \/ SetTag

SpecTags == InitTags /\ [][NextTags]_vars

----------------------------------------------------------------------------
(* the codec's claims *)

\* text that UTF-8 and the NUL terminator carry unchanged
CleanText(cps) == \A i \in 1..Len(cps) : cps[i] # 0 /\ ~IsSurrogate(cps[i])

\* a double that float32 holds exactly: a zero, an infinity, or 24
\* significant bits at an exponent of float32
IsFloat32(f) ==
    LET e == f.s[2]
        hi == f.s[3]
        lo == f.s[4]
        E == e - 1023
    IN  \/ (e = 0 /\ hi = 0 /\ lo = 0)
        \/ (e = 2047 /\ hi = 0 /\ lo = 0)
        \/ (lo = 0 /\ E >= -126 /\ E <= 127)
        \/ (lo = 0 /\ E >= -149 /\ E < -126 /\ hi % (2 ^ (-126 - E)) = 0)

\* a value the format stores without loss
RECURSIVE Lossless(_)
Lossless(v) ==
    IF v.t = "dict"
    THEN \A i \in 1..Len(v.d) :
            v.d[i].k # <<>> /\ CleanText(v.d[i].k) /\ Lossless(v.d[i].v)
    ELSE IF v.t = "str" THEN CleanText(v.s)
    ELSE IF v.t = "int" THEN ~v.neg /\ Len(v.s) <= 8
    ELSE IsFloat32(v)

\* C1 as stated: every tree with non-empty keys and values that are
\* sections, strings, integers or floats is read back equal to the original
C1_RoundTripAnyTree == pc = "done" => PyEq(PyDict(out), tree)

\* C1 amended: a tree whose keys and strings hold no NUL and no lone
\* surrogate, whose integers lie in 0..2^64-1 and whose floats are float32
\* values other than NaN is written without an exception and read back
\* equal to the original
C1_RoundTrip ==
    Lossless(tree) =>
        /\ pc \notin {"write_raised", "raised"}
        /\ pc = "done" => PyEq(PyDict(out), tree)

C1_Witness ==
    /\ pc = "done"
    /\ Lossless(tree)
    /\ Len(tree.d) = 2
    /\ tree.d[1].v.t = "dict"
    /\ tree.d[1].v.d # <<>>
    /\ tree.d[1].v.d[1].v.t = "float"
    /\ out = tree.d

\* C2: parse_vdf returns a dict for every buffer and never raises
C2_DecodeTotal == pc # "raised"

\* the next entry is a String with a non-empty key whose value has no
\* terminator before the end of the buffer
StringCutShort ==
    /\ pc = "parse"
    /\ offset < Len(data)
    /\ ByteAt(data, offset) = 1
    /\ LET keyEnd == ScanToNul(data, offset + 1)
       IN  /\ keyEnd > offset + 1
           /\ keyEnd < Len(data)
           /\ ScanToNul(data, keyEnd + 1) >= Len(data)

\* C3: a String value without terminator is stored as the remaining bytes
\* decoded, and the cursor ends at the end of the buffer
C3_PartialStringKept ==
    [][StringCutShort =>
          LET keyEnd == ScanToNul(data, offset + 1)
              key == Utf8Decode(SubSeq(data, offset + 2, keyEnd))
              rest == SubSeq(data, keyEnd + 2, Len(data))
              top == stack'[Len(stack')]
          IN  /\ offset' = Len(data)
              /\ pc' = "parse"
              /\ HasKey(top.result, key)
              /\ DictGet(top.result, key) = PyStr(Utf8Decode(rest))]_vars

\* -2^31 <= v <= 2^32 - 1
InInt32Union(v) ==
    IF v.neg THEN MagLeq(v.s, <<0, 0, 0, 128>>) ELSE Len(v.s) <= 4

\* the digits of a + b, without the carry out of the last digit
RECURSIVE AddLow(_, _, _)
AddLow(a, b, carry) ==
    IF a = <<>> THEN <<>>
    ELSE LET sum == Head(a) + Head(b) + carry
         IN  <<sum % 256>> \o AddLow(Tail(a), Tail(b), sum \div 256)

\* bs is the n-digit little-endian form of v mod 256^n
IsResidue(bs, v, n) ==
    /\ Len(bs) = n
    /\ IF v.neg THEN AddLow(bs, LowBytes(v.s, n), 0) = Zeros(n)
       ELSE \A i \in 1..n : bs[i] = IF i <= Len(v.s) THEN v.s[i] ELSE 0

\* the tree is one integer under one key, and has been written
OneIntWritten ==
    /\ pc \in {"parse", "done"}
    /\ Len(tree.d) = 1
    /\ tree.d[1].v.t = "int"

\* C4: an integer is written with tag 0x02 and its value mod 2^32 in four
\* little-endian bytes exactly when -2^31 <= v <= 2^32-1, and otherwise
\* with tag 0x07 and its value mod 2^64 in eight; 0 is 02 and four zero
\* bytes, 2^63-1 has tag 07
C4_IntegerWidth ==
    OneIntWritten =>
        LET v == tree.d[1].v
            head == <<IF InInt32Union(v) THEN 2 ELSE 7>> \o Utf8Encode(tree.d[1].k) \o <<0>>
            width == IF InInt32Union(v) THEN 4 ELSE 8
            n == Len(head)
        IN  /\ Len(data) = n + width + 1
            /\ SubSeq(data, 1, n) = head
            /\ IsResidue(SubSeq(data, n + 1, n + width), v, width)
            /\ data[Len(data)] = 8
            /\ v.s = <<>> => SubSeq(data, n + 1, n + 4) = <<0, 0, 0, 0>> /\ data[1] = 2
            /\ v = PyInt(FALSE, <<255, 255, 255, 255, 255, 255, 255, 127>>) => data[1] = 7

C4_Witness ==
    /\ OneIntWritten
    /\ tree.d[1].v = PyInt(TRUE, <<1, 0, 0, 128>>)
    /\ data[1] = 7
    /\ SubSeq(data, Len(data) - 8, Len(data) - 1)
           = <<255, 255, 255, 127, 255, 255, 255, 255>>

\* C5: an integer in -2^31..-1 is read back as v + 2^32, an integer in
\* 0..2^64-1 as itself
C5_UnsignedDecode ==
    (OneIntWritten /\ pc = "done") =>
        LET v == tree.d[1].v
            r == out[1].v
        IN  /\ Len(out) = 1
            /\ out[1].k = tree.d[1].k
            /\ (~v.neg /\ Len(v.s) <= 8) => r = v
            /\ (v.neg /\ InInt32Union(v)) =>
                  /\ r.t = "int"
                  /\ ~r.neg
                  /\ Len(r.s) <= 4
                  /\ AddLow(LowBytes(r.s, 5), LowBytes(v.s, 5), 0) = <<0, 0, 0, 0, 1>>

C5_Witness ==
    /\ OneIntWritten
    /\ pc = "done"
    /\ tree.d[1].v = PyInt(TRUE, <<1>>)
    /\ out[1].v = PyInt(FALSE, <<255, 255, 255, 255>>)

\* the position after bs when bs stands at position pos of bytes, else 0
Expect(bytes, pos, bs) ==
    IF pos > 0 /\ pos + Len(bs) - 1 <= Len(bytes)
              /\ SubSeq(bytes, pos, pos + Len(bs) - 1) = bs
    THEN pos + Len(bs)
    ELSE 0

\* the position after n bytes from position pos, else 0
Skip(bytes, pos, n) ==
    IF pos > 0 /\ pos + n - 1 <= Len(bytes) THEN pos + n ELSE 0

\* the position after the encodings of the entries, in order, when they
\* stand at position pos of bytes, else 0: each is its tag, its key and a
\* 0x00, then its payload
RECURSIVE Layout(_, _, _)
Layout(bytes, pos, entries) ==
    IF entries = <<>> \/ pos = 0 \/ pos > Len(bytes) THEN (IF entries = <<>> THEN pos ELSE 0)
    ELSE LET e == entries[1]
             tag == bytes[pos]
             afterKey == Expect(bytes, pos + 1, Utf8Encode(e.k) \o <<0>>)
             afterPayload ==
                 IF e.v.t = "dict"
                 THEN IF tag = 0
                      THEN Expect(bytes, Layout(bytes, afterKey, e.v.d), <<8>>)
                      ELSE 0
                 ELSE IF e.v.t = "str"
                 THEN IF tag = 1
                      THEN Expect(bytes, afterKey, Utf8Encode(e.v.s) \o <<0>>)
                      ELSE 0
                 ELSE IF e.v.t = "int"
                 THEN IF tag = 2 THEN Skip(bytes, afterKey, 4)
                      ELSE IF tag = 7 THEN Skip(bytes, afterKey, 8)
                      ELSE 0
                 ELSE IF tag = 3 THEN Skip(bytes, afterKey, 4) ELSE 0
         IN  Layout(bytes, afterPayload, Tail(entries))

\* C6: the output is the top-level entries' encodings in key order and one
\* trailing 0x08, with no tag or key for the root; a section is 00, its
\* key, its children and one 08; {"name": "test"} is 01 'name' 00 'test' 00 08
C6_EncodingLayout ==
    pc \in {"parse", "done"} =>
        /\ Expect(data, Layout(data, 1, tree.d), <<8>>) = Len(data) + 1
        /\ tree = NameTest =>
              data = <<1, 110, 97, 109, 101, 0, 116, 101, 115, 116, 0, 8>>

C6_Witness ==
    /\ pc = "done"
    /\ Len(tree.d) = 2
    /\ tree.d[1].v.t = "dict"
    /\ Len(tree.d[1].v.d) = 2
    /\ tree.d[2].v.t = "dict"
    /\ data[1] = 0
    /\ SubSeq(data, Len(data) - 4, Len(data)) = <<0, 98, 0, 8, 8>>

\* every section of the original is a section of the decoded tree, an
\* empty one is empty, and the entries after an empty one are decoded
RECURSIVE EmptySectionsKept(_, _)
EmptySectionsKept(orig, decoded) ==
    \A i \in 1..Len(orig) :
        orig[i].v.t = "dict" =>
            /\ HasKey(decoded, orig[i].k)
            /\ DictGet(decoded, orig[i].k).t = "dict"
            /\ IF orig[i].v.d = <<>>
               THEN /\ DictGet(decoded, orig[i].k).d = <<>>
                    /\ \A j \in (i + 1)..Len(orig) :
                          /\ HasKey(decoded, orig[j].k)
                          /\ PyEq(DictGet(decoded, orig[j].k), orig[j].v)
               ELSE EmptySectionsKept(orig[i].v.d, DictGet(decoded, orig[i].k).d)

\* C7: an empty nested section is read back as an empty mapping under the
\* same key, and the entries that follow it are read into the same parent
C7_EmptySectionKept == pc = "done" => EmptySectionsKept(tree.d, out)

C7_Witness ==
    /\ pc = "done"
    /\ Len(tree.d) = 2
    /\ tree.d[1].v.t = "dict"
    /\ Len(tree.d[1].v.d) = 2
    /\ tree.d[1].v.d[1].v = PyDict(<<>>)
    /\ tree.d[1].v.d[2].v = PyStr(<<116>>)
    /\ out = tree.d

----------------------------------------------------------------------------
(* the repository's claims *)

\* the children of "shortcuts" in a dict
ShortcutsOf(entries) == DictGet(entries, ShortcutsKey).d

\* a repository has been constructed from the file the last save wrote;
\* tree is the dict that save mapped its games to
ReadBack ==
    /\ pc = "constructed"
    /\ exists
    /\ HasKey(tree.d, ShortcutsKey)

\* the games read are the games saved, field by field, and the file holds
\* the i-th under str(i)
SameAsSaved ==
    LET saved == ShortcutsOf(tree.d)
        file == parse_vdf(data)
        stored == ShortcutsOf(file.out)
    IN  /\ file.pc = "done"
        /\ HasKey(file.out, ShortcutsKey)
        /\ Len(games) = Len(saved)
        /\ Len(stored) = Len(saved)
        /\ \A n \in 1..Len(saved) :
              /\ stored[n].k = DecimalDigits(n - 1)
              /\ \A i \in 1..Len(FieldNames) :
                    LET key == FieldKeys[FieldNames[i]]
                    IN  /\ HasKey(saved[n].v.d, key)
                        /\ PyEq(games[n][FieldNames[i]],
                                DictGet(saved[n].v.d, key))

\* C8 as stated: any list of records saved and read back has the same
\* length and every field of every record equal to the original's, the
\* i-th record stored under str(i)
C8_AnyRecordsReadBack == ReadBack => SameAsSaved

\* C8 amended: a list of records whose fields hold values the format stores
\* without loss (integers in 0..2^64-1, text with no NUL and no lone
\* surrogate, tags of such values under non-empty keys) is saved without an
\* exception and read back with the same length and every field of every
\* record equal to the original's, the i-th record stored under str(i)
C8_RecordsReadBack ==
    /\ pc = "save_raised" => ~Lossless(tree)
    /\ (ReadBack /\ Lossless(tree)) => SameAsSaved

\* two games, the first with nested tags, have been saved and read back
C8_Witness ==
    /\ ReadBack
    /\ Lossless(tree)
    /\ Len(games) = 2
    /\ games[1].tags = NestedTags
    /\ games[2].tags = NestedTags

\* C9: the games games_from_vdf_dict builds from the dict games_to_vdf_dict
\* made of a list are as many as the list and equal to it field by field
C9_MappingReversible ==
    pc \in { "saved", "save_raised" } =>
        LET r == games_from_vdf_dict(tree.d)
        IN  /\ r.ok
            /\ Len(r.games) = Len(games)
            /\ \A n \in 1..Len(games) :
                  \A i \in 1..Len(FieldNames) :
                      r.games[n][FieldNames[i]] = games[n][FieldNames[i]]

\* a list with zero and negative integer fields and with nested tags has
\* been mapped
C9_Witness ==
    /\ pc = "saved"
    /\ \E n \in 1..Len(games) :
          /\ games[n].appid = Zero
          /\ games[n].AllowOverlay = Zero
          /\ games[n].LastPlayTime = PyInt(TRUE, <<1>>)
    /\ \E n \in 1..Len(games) : games[n].tags = NestedTags

\* C10: the dict a save maps the games to has under "shortcuts" the keys
\* "0".."N-1" in list order, str(i) holding the fields of the i-th game
C10_IndexRecomputed ==
    pc \in { "saved", "save_raised" } =>
        /\ Len(tree.d) = 1
        /\ tree.d[1].k = ShortcutsKey
        /\ tree.d[1].v.t = "dict"
        /\ LET shortcuts == tree.d[1].v.d
           IN  /\ Len(shortcuts) = Len(games)
               /\ \A n \in 1..Len(games) :
                     /\ shortcuts[n].k = DecimalDigits(n - 1)
                     /\ Len(shortcuts[n].v.d) = Len(FieldNames)
                     /\ \A i \in 1..Len(FieldNames) :
                           Get(shortcuts[n].v.d, FieldKeys[FieldNames[i]], Zero)
                               = games[n][FieldNames[i]]

\* an added game and after it the game of the other program's file, which
\* came into the repository by a load, have been saved
C10_Witness ==
    /\ pc = "saved"
    /\ games = <<NegativeGame, TaggedGame>>
    /\ Keys(ShortcutsOf(tree.d)) = << <<48>>, <<49>> >>

----------------------------------------------------------------------------
(* the serializer's claims *)

\* the defaults the documentation gives: "" for the strings, 0 for
\* IsHidden, OpenVR, Devkit, DevkitOverrideAppID and LastPlayTime, 1 for
\* AllowDesktopConfig and AllowOverlay, {} for tags
DocumentedDefaults ==
    [ AppName |-> PyStr(<<>>), Exe |-> PyStr(<<>>), StartDir |-> PyStr(<<>>),
      icon |-> PyStr(<<>>), ShortcutPath |-> PyStr(<<>>),
      LaunchOptions |-> PyStr(<<>>), DevkitGameID |-> PyStr(<<>>),
      FlatpakAppID |-> PyStr(<<>>),
      IsHidden |-> PyInt(FALSE, <<>>), OpenVR |-> PyInt(FALSE, <<>>),
      Devkit |-> PyInt(FALSE, <<>>), DevkitOverrideAppID |-> PyInt(FALSE, <<>>),
      LastPlayTime |-> PyInt(FALSE, <<>>),
      AllowDesktopConfig |-> PyInt(FALSE, <<1>>),
      AllowOverlay |-> PyInt(FALSE, <<1>>),
      tags |-> PyDict(<<>>) ]

\* "shortcuts" is absent, or a section whose children are all sections
SectionsOnly(vdf_data) ==
    HasKey(vdf_data, ShortcutsKey) =>
        /\ DictGet(vdf_data, ShortcutsKey).t = "dict"
        /\ \A n \in 1..Len(ShortcutsOf(vdf_data)) :
              ShortcutsOf(vdf_data)[n].v.t = "dict"

\* the record has the schema's fields and no other; each is the child's
\* value under the field's name, or the documented default
BuiltFrom(game, child) ==
    /\ DOMAIN game = { FieldNames[i] : i \in 1..Len(FieldNames) }
    /\ \A f \in DOMAIN game :
          IF HasKey(child, FieldKeys[f]) THEN game[f] = DictGet(child, FieldKeys[f])
          ELSE f \in DOMAIN DocumentedDefaults => game[f] = DocumentedDefaults[f]

\* C11: games_from_vdf_dict builds one record per child of "shortcuts", in
\* the section's order and whatever the child's key; a field is the child's
\* value under its name or, when absent, its documented default; keys
\* outside the schema are ignored; without "shortcuts" the list is empty
C11_RecordPerChild ==
    (pc \in { "mapped", "map_raised" } /\ SectionsOnly(tree.d)) =>
        /\ pc = "mapped"
        /\ IF HasKey(tree.d, ShortcutsKey)
           THEN /\ Len(games) = Len(ShortcutsOf(tree.d))
                /\ \A n \in 1..Len(games) :
                      BuiltFrom(games[n], ShortcutsOf(tree.d)[n].v.d)
           ELSE games = <<>>

\* two children, under "" and "999", have been mapped: the first lacks
\* AllowOverlay, the second has a key outside the schema
C11_Witness ==
    /\ pc = "mapped"
    /\ HasKey(tree.d, ShortcutsKey)
    /\ Keys(ShortcutsOf(tree.d)) = << <<>>, <<57, 57, 57>> >>
    /\ ~HasKey(ShortcutsOf(tree.d)[1].v.d, FieldKeys.AllowOverlay)
    /\ HasKey(ShortcutsOf(tree.d)[1].v.d, FieldKeys.AllowDesktopConfig)
    /\ HasKey(ShortcutsOf(tree.d)[2].v.d, ExtraKey)
    /\ games[1].AllowOverlay = PyInt(FALSE, <<1>>)
    /\ games[2] = FullGame

\* the fields in the order of the schema's table
SchemaTable ==
    << "appid", "AppName", "Exe", "StartDir", "icon", "ShortcutPath",
       "LaunchOptions", "IsHidden", "AllowDesktopConfig", "AllowOverlay",
       "OpenVR", "Devkit", "DevkitGameID", "DevkitOverrideAppID",
       "LastPlayTime", "FlatpakAppID", "tags" >>

\* C12: the section games_to_vdf_dict makes of a record holds exactly the
\* schema's fields in the table's order, tags being a section, empty when
\* the record has no tags
C12_SchemaOrder ==
    pc \in { "saved", "save_raised" } =>
        /\ Len(ShortcutsOf(tree.d)) = Len(games)
        /\ \A n \in 1..Len(games) :
              LET section == ShortcutsOf(tree.d)[n].v
              IN  /\ section.t = "dict"
                  /\ Keys(section.d) =
                         [i \in 1..Len(SchemaTable) |-> FieldKeys[SchemaTable[i]]]
                  /\ section.d[Len(SchemaTable)].v.t = "dict"
                  /\ games[n].tags.d = <<>> =>
                         section.d[Len(SchemaTable)].v = PyDict(<<>>)
                  /\ games[n].tags.d # <<>> =>
                         section.d[Len(SchemaTable)].v.d # <<>>

\* a game with tags and a game without have been mapped
C12_Witness ==
    /\ pc = "saved"
    /\ Len(games) = 2
    /\ games[1].tags = PyDict(<<>>)
    /\ games[2].tags = NestedTags
    /\ Len(ShortcutsOf(tree.d)[1].v.d) = 17


\* C17: when "shortcuts" is a section with a child that is not a section,
\* games_from_vdf_dict does not raise; it returns a list that holds a
\* record for every child that is a section.
C17_MalformedChildTolerated ==
    (/\ pc \in { "mapped", "map_raised" }
     /\ HasKey(tree.d, ShortcutsKey)
     /\ DictGet(tree.d, ShortcutsKey).t = "dict"
     /\ \E n \in 1..Len(ShortcutsOf(tree.d)) :
            ShortcutsOf(tree.d)[n].v.t # "dict") =>
        /\ pc = "mapped"
        /\ \A n \in 1..Len(ShortcutsOf(tree.d)) :
               ShortcutsOf(tree.d)[n].v.t = "dict" =>
                   \E k \in 1..Len(games) :
                       BuiltFrom(games[k], ShortcutsOf(tree.d)[n].v.d)

----------------------------------------------------------------------------
(* the id generator's claims *)

\* an integer of [2^31, 2^32 - 1]: four bytes, the top bit of the last set
InAppIdRange(v) ==
    /\ v.t = "int"
    /\ v.neg = FALSE
    /\ Len(v.s) = 4
    /\ \A k \in 1..4 : v.s[k] \in 0..255
    /\ v.s[4] >= 128

KnownCrc32 ==
    { [key |-> <<116, 101, 115, 116, 46, 101, 120, 101,
                 84, 101, 115, 116, 71, 97, 109, 101>>,
       crc |-> <<132, 26, 164, 114>>],
      [key |-> <<47, 112, 97, 116, 104, 47, 97, 46, 101, 120, 101,
                 71, 97, 109, 101, 32, 65>>,
       crc |-> <<235, 236, 250, 29>>],
      [key |-> <<47, 112, 97, 116, 104, 47, 98, 46, 101, 120, 101,
                 71, 97, 109, 101, 32, 66>>,
       crc |-> <<80, 219, 17, 29>>],
      [key |-> <<47, 112, 97, 116, 104, 47, 98, 46, 101, 120, 101,
                 71, 97, 109, 101, 32, 65>>,
       crc |-> <<234, 138, 24, 132>>],
      [key |-> <<47, 97, 98, 99>>, crc |-> <<164, 248, 112, 19>>],
      [key |-> <<47, 97, 99>>, crc |-> <<203, 178, 13, 100>>],
      [key |-> <<47, 97, 98>>, crc |-> <<93, 130, 10, 19>>],
      [key |-> <<97>>, crc |-> <<67, 190, 183, 232>>],
      [key |-> <<>>, crc |-> <<0, 0, 0, 0>>],
      [key |-> <<47, 233>>, crc |-> <<14, 71, 141, 131>>] }

\* C14: generate_shortcut_appid(name, exe) is the CRC-32 of the UTF-8 bytes
\* of exe followed by name, masked to 32 bits, with 0x80000000 or-ed in; the
\* executable path is first in the concatenation and the name second.
C14_CrcOfExeThenName ==
    \A i \in DOMAIN appids :
        \E known \in KnownCrc32 :
            /\ known.key = appids[i].exe \o appids[i].name
            /\ appids[i].appid =
                   PyInt(FALSE,
                         [known.crc EXCEPT ![4] = (known.crc[4] % 128) + 128])

\* name "c" and exe "/ab": the key is "/abc" and not "c/ab"
C14_Witness ==
    \E i \in DOMAIN appids :
        /\ appids[i].name = <<99>>
        /\ appids[i].exe = <<47, 97, 98>>
        /\ appids[i].appid = PyInt(FALSE, <<164, 248, 112, 147>>)

----------------------------------------------------------------------------
(* the claims about discovered games *)

\* C16: a record created from a discovered candidate has the candidate's
\* shortcut_id, the generated id with bit 31 set, as its appid, and not the
\* Steam store id; AppName, Exe and StartDir are the candidate's and every
\* other field has its default.
C16_AppidFromGenerator ==
    /\ Len(games) = Len(game_candidates)
    /\ \A i \in DOMAIN games :
           LET candidate == game_candidates[i]
           IN  /\ InAppIdRange(games[i].appid)
               /\ games[i] =
                      NonSteamGame(candidate.shortcut_id,
                                   PyStr(candidate.name),
                                   PyStr(candidate.exe_path),
                                   PyStr(candidate.start_dir),
                                   EmptyStr, EmptyStr, EmptyStr, Zero, One,
                                   One, Zero, Zero, EmptyStr, Zero, Zero,
                                   EmptyStr, PyDict(<<>>))


----------------------------------------------------------------------------
(* the decoder's claims about damaged input *)

\* the next entry has the given tag and a non-empty key, and fewer than
\* `width` bytes follow the key
TruncatedNumber(tag, width) ==
    /\ pc = "parse"
    /\ offset < Len(data)
    /\ ByteAt(data, offset) = tag
    /\ LET keyEnd == ScanToNul(data, offset + 1)
       IN  /\ keyEnd > offset + 1
           /\ keyEnd < Len(data)
           /\ keyEnd + 1 + width > Len(data)

\* the pass stores value under the entry's key in the section being
\* decoded and the decoder goes on
StoresUnderKey(value) ==
    LET keyEnd == ScanToNul(data, offset + 1)
        key == Utf8Decode(SubSeq(data, offset + 2, keyEnd))
    IN  /\ pc' = "parse"
        /\ Len(stack') = Len(stack)
        /\ HasKey(stack'[Len(stack')].result, key)
        /\ DictGet(stack'[Len(stack')].result, key) = value

\* C18: when fewer than 4, 8 or 4 bytes remain after the key of an Int32,
\* Int64 or Float32 entry, parse_vdf stores 0 (0.0 for a float) under the
\* entry's key and does not raise.
C18_TruncatedNumberIsZero ==
    [][/\ TruncatedNumber(2, 4) => StoresUnderKey(PyInt(FALSE, <<>>))
       /\ TruncatedNumber(7, 8) => StoresUnderKey(PyInt(FALSE, <<>>))
       /\ TruncatedNumber(3, 4) => StoresUnderKey(PyFloat(0, 0, 0, 0))]_vars

\* an Int64 entry "a" followed by four bytes only: "a" holds 0
C18_Witness ==
    /\ data = <<7, 97, 0, 0, 0, 128, 63>>
    /\ pc = "parse"
    /\ offset = 3
    /\ stack = <<Frame(<<Entry(<<97>>, PyInt(FALSE, <<>>))>>, <<>>)>>


\* the next entry has a tag that is none of 0x00, 0x01, 0x02, 0x03, 0x07,
\* 0x08 and a non-empty key
UnknownTagEntry ==
    /\ pc = "parse"
    /\ offset < Len(data)
    /\ ByteAt(data, offset) \notin { 0, 1, 2, 3, 7, 8 }
    /\ LET keyEnd == ScanToNul(data, offset + 1)
       IN  keyEnd > offset + 1 /\ keyEnd < Len(data)

\* C19: an entry with an unknown tag and a non-empty key is decoded as a
\* String entry is: the pass does what it does on the same bytes with the
\* tag 0x01, and a payload that ends in a NUL is stored decoded under the
\* key, the cursor going to the byte after the NUL.
C19_UnknownTagAsString ==
    [][UnknownTagEntry =>
          LET keyEnd == ScanToNul(data, offset + 1)
              valueEnd == ScanToNul(data, keyEnd + 1)
              asString ==
                  parse_section([data EXCEPT ![offset + 1] = 1], offset, stack)
          IN  /\ offset' = asString.offset
              /\ stack' = asString.stack
              /\ pc' = asString.pc
              /\ valueEnd < Len(data) =>
                     /\ offset' = valueEnd + 1
                     /\ StoresUnderKey(
                            PyStr(Utf8Decode(SubSeq(data, keyEnd + 2, valueEnd))))]_vars

\* tag 0x09, key "a", payload "a": "a" holds "a" and the cursor is after
\* the payload's NUL
C19_Witness ==
    /\ data = <<9, 97, 0, 97, 0>>
    /\ pc = "parse"
    /\ offset = 5
    /\ stack = <<Frame(<<Entry(<<97>>, PyStr(<<97>>))>>, <<>>)>>


\* the next entry is a Section whose key is empty
EmptyKeySection ==
    /\ pc = "parse"
    /\ offset < Len(data)
    /\ ByteAt(data, offset) = 0
    /\ ScanToNul(data, offset + 1) = offset + 1

\* the innermost section ends here and its caller stores it
SectionReturns ==
    /\ pc = "parse"
    /\ Len(stack) > 1
    /\ offset >= Len(data) \/ ByteAt(data, offset) = 8

\* C20: a Section entry with an empty key gets the key "_subsection_<n>",
\* n being the number of distinct keys the enclosing section holds at that
\* point; when the subsection ends it is stored under its key, and if the
\* enclosing section already holds that key the subsection replaces the old
\* value, the other entries and the order of the keys staying as they were.
C20_SyntheticKey ==
    [][/\ EmptyKeySection =>
              LET held == stack[Len(stack)].result
                  n == Cardinality({ held[i].k : i \in 1..Len(held) })
              IN  /\ n < 10
                  /\ pc' = "parse"
                  /\ stack' =
                         Append(stack,
                                Frame(<<>>,
                                      <<95, 115, 117, 98, 115, 101, 99, 116,
                                        105, 111, 110, 95, 48 + n>>))
       /\ SectionReturns =>
              LET top == stack[Len(stack)]
                  before == stack[Len(stack) - 1].result
                  after == stack'[Len(stack')].result
              IN  /\ Len(stack') = Len(stack) - 1
                  /\ HasKey(after, top.key)
                  /\ DictGet(after, top.key) = PyDict(top.result)
                  /\ \A i \in 1..Len(before) :
                         /\ after[i].k = before[i].k
                         /\ before[i].k # top.key => after[i] = before[i]
                  /\ Len(after) =
                         IF HasKey(before, top.key) THEN Len(before)
                         ELSE Len(before) + 1]_vars

\* the String "_subsection_1" was the only entry when a section with an
\* empty key came: the section {"a": 1} has taken its place
C20_Witness ==
    /\ data \in SubsectionBuffers
    /\ pc = "done"
    /\ out = <<Entry(<<95, 115, 117, 98, 115, 101, 99, 116, 105, 111, 110,
                       95, 49>>,
                     PyDict(<<Entry(<<97>>, PyInt(FALSE, <<1>>))>>))>>

----------------------------------------------------------------------------
(* the decoder's claims about sections and the cursor *)

\* the pass reads an end marker in tag position, or finds the buffer used up
SectionEnds ==
    /\ pc = "parse"
    /\ offset >= Len(data) \/ data[offset + 1] = 8

\* the activations around the innermost one
Enclosing(frames) == SubSeq(frames, 1, Len(frames) - 1)

\* C21: a section being decoded ends at the first 0x08 read in tag position
\* at its own nesting level or at end-of-buffer, and at nothing else; an
\* 0x08 closes exactly one nesting level, the section being stored under
\* its key in the enclosing section, which resumes at the byte after the
\* 0x08; a pass that does not end the section leaves the sections around it
\* as they are and keeps the keys the section holds.
C21_OneMarkerOneLevel ==
    [][/\ SectionEnds =>
              LET top == stack[Len(stack)]
              IN  /\ offset' = IF offset >= Len(data) THEN offset ELSE offset + 1
                  /\ IF Len(stack) = 1
                     THEN pc' = "done" /\ out' = top.result
                     ELSE /\ pc' = "parse"
                          /\ Len(stack') = Len(stack) - 1
                          /\ Enclosing(stack') = Enclosing(Enclosing(stack))
                          /\ stack'[Len(stack')] =
                                 Frame(DictSet(stack[Len(stack) - 1].result,
                                               top.key, PyDict(top.result)),
                                       stack[Len(stack) - 1].key)
       /\ pc = "parse" /\ ~SectionEnds =>
              /\ pc' = "parse"
              /\ Len(stack') \in { Len(stack), Len(stack) + 1 }
              /\ Enclosing(SubSeq(stack', 1, Len(stack))) = Enclosing(stack)
              /\ stack'[Len(stack)].key = stack[Len(stack)].key
              /\ \A i \in 1..Len(stack[Len(stack)].result) :
                     stack'[Len(stack)].result[i].k = stack[Len(stack)].result[i].k
              /\ Len(stack') = Len(stack) + 1 =>
                     /\ data[offset + 1] = 0
                     /\ stack'[Len(stack')].result = <<>>]_vars

\* "c" went into the innermost section, "d" into the one around it after
\* the first end marker, "e" into the root after the second, and the third
\* end marker ended the root
C21_Witness ==
    /\ pc = "done"
    /\ offset = Len(data)
    /\ Len(data) = 24
    /\ out = <<Entry(<<97>>,
                     PyDict(<<Entry(<<98>>, PyDict(<<Entry(<<99>>, PyStr(<<99>>))>>)),
                              Entry(<<100>>, PyStr(<<100>>))>>)),
               Entry(<<101>>, PyStr(<<101>>))>>

----------------------------------------------------------------------------
(* the claims about the discover command *)

\* the games now in the repository that were not discovered by this run
Existing == SubSeq(games, 1, Len(games) - Len(game_candidates))

\* the games of the shortcuts.vdf just saved
SavedGames == load_games_from_vdf(data, <<>>).games

\* C22: discover --fresh ignores existing shortcuts: the repository that is
\* listed and then saved holds only the games this run discovered, whatever
\* shortcuts.vdf held before.
C22_FreshIgnoresExisting ==
    /\ args.fresh /\ pc \in { "listed", "saved" } =>
           games = [i \in 1..Len(game_candidates) |->
                       from_candidate(game_candidates[i])]
    /\ args.fresh /\ pc = "saved" =>
           Len(SavedGames) = Len(game_candidates)

\* the games of the shortcuts.vdf the command found
FoundGames == IF exists THEN load_games_from_vdf(data, <<>>).games ELSE <<>>

\* C29: discover without --fresh (and main.py) on a shortcuts.vdf holding K
\* shortcuts, discovery finding D games: the repository that is saved holds
\* K + D games, each of the K existing shortcuts exactly once.
C29_ExistingLoadedOnce ==
    /\ ~args.fresh /\ pc = "listed" =>
           /\ Len(games) = Len(FoundGames) + Len(game_candidates)
           /\ Existing = FoundGames
    /\ ~args.fresh /\ pc = "saved" =>
           \A name \in games_already_added :
               Cardinality({ i \in 1..Len(SavedGames) :
                               SavedGames[i].AppName = name }) = 1

----------------------------------------------------------------------------
(* the validator's claims *)

\* C23: find_main_executable applies its priorities across the whole list:
\* an executable whose stem equals the game name case-insensitively is
\* returned whenever the list holds one, even after an executable that
\* matches only with the spaces removed; one that matches with the spaces
\* removed only when no exact match exists; the largest file only when
\* nothing matches either way; an empty list raises ValueError.
C23_PrioritiesAcrossList ==
    validation # NoValidation /\ pc = "done" =>
        LET valid_exes == validation.valid_exes
            game_name == validation.game_name
            returned == validation.returned
            exact == { i \in 1..Len(valid_exes) :
                         ExactMatch(valid_exes[i], game_name) }
            spaceless == { i \in 1..Len(valid_exes) :
                             SpacelessMatch(valid_exes[i], game_name) }
        IN  IF valid_exes = <<>> THEN returned.raised = "ValueError"
            ELSE /\ returned.raised = ""
                 /\ IF exact # {}
                    THEN \E i \in exact : returned.exe = valid_exes[i]
                    ELSE IF spaceless # {}
                    THEN \E i \in spaceless : returned.exe = valid_exes[i]
                    ELSE \A j \in 1..Len(valid_exes) :
                             safe_get_size(valid_exes[j])
                                 <= safe_get_size(returned.exe)

\* a pass through the body of the while loop of the section being decoded
LoopIteration == pc = "parse" /\ offset < Len(data)

\* C24: parse_vdf terminates on every finite buffer: the cursor never
\* decreases and never exceeds the buffer length, every iteration of a
\* section's loop consumes at least one byte (so there are at most as many
\* iterations, over all nesting levels, as the buffer has bytes), a section
\* whose loop has ended returns without moving the cursor, and the call
\* ends.
C24_Terminates ==
    /\ [][pc = "parse" /\ pc' # "raised" =>
              /\ offset' >= offset
              /\ offset' <= Len(data)
              /\ LoopIteration => offset' >= offset + 1
              /\ ~LoopIteration =>
                     /\ offset' = offset
                     /\ pc' = "done" \/ Len(stack') = Len(stack) - 1]_vars
    /\ <>(pc \in { "done", "raised" })

\* the nested file cut after its "c" entry: three iterations took its 11
\* bytes, and the three sections returned at the end of the buffer
C24_Witness ==
    /\ pc = "done"
    /\ Len(data) = 11
    /\ offset = Len(data)
    /\ out = <<Entry(<<97>>,
                     PyDict(<<Entry(<<98>>,
                                    PyDict(<<Entry(<<99>>, PyStr(<<99>>))>>))>>))>>

\* the next entry has the given tag and an empty key, and `width` bytes of
\* payload follow the key's NUL
EmptyKeyNumber(tag, width) ==
    /\ pc = "parse"
    /\ offset + 2 + width <= Len(data)
    /\ ByteAt(data, offset) = tag
    /\ ByteAt(data, offset + 1) = 0

\* the next entry is a String with an empty key and a terminated payload
EmptyKeyString ==
    /\ pc = "parse"
    /\ offset + 2 < Len(data)
    /\ ByteAt(data, offset) = 1
    /\ ByteAt(data, offset + 1) = 0
    /\ ScanToNul(data, offset + 2) < Len(data)

\* the pass stores nothing and leaves the cursor at `next`
SkipsTo(next) == pc' = "parse" /\ stack' = stack /\ offset' = next

\* C25: a String, Int32, Float32 or Int64 entry with an empty key is
\* skipped whole: nothing is stored for it and the next tag byte read is the
\* first byte after the entry's payload.
C25_EmptyKeyEntrySkipped ==
    [][/\ EmptyKeyNumber(2, 4) => SkipsTo(offset + 6)
       /\ EmptyKeyNumber(3, 4) => SkipsTo(offset + 6)
       /\ EmptyKeyNumber(7, 8) => SkipsTo(offset + 10)
       /\ EmptyKeyString => SkipsTo(ScanToNul(data, offset + 2) + 1)]_vars

\* C26: when the payload of an Int32, Int64 or Float32 entry is cut short
\* by the end of the buffer, the cursor moves to the end of the buffer, so
\* the bytes left are not decoded as further entries.
C26_TruncatedNumberEndsBuffer ==
    [][TruncatedNumber(2, 4) \/ TruncatedNumber(7, 8) \/ TruncatedNumber(3, 4)
          => offset' = Len(data)]_vars

----------------------------------------------------------------------------
(* the claims about files loaded, saved and loaded again *)

\* no float anywhere in the entries
RECURSIVE NoFloats(_)
NoFloats(entries) ==
    \A i \in 1..Len(entries) :
        /\ entries[i].v.t # "float"
        /\ entries[i].v.t = "dict" => NoFloats(entries[i].v.d)

\* C27: decoding normalises in one step: for every buffer b from which no
\* Float32 entry is decoded, write_binary_vdf(parse_vdf(b)) raises nothing
\* and parse_vdf of its bytes equals parse_vdf(b), with the same key order
\* in every section.
C27_DecodeNormalises ==
    /\ pc # "write_raised"
    /\ pc \in { "saved", "reloaded" } /\ NoFloats(tree.d) =>
           parse_vdf(data).pc = "done"
    /\ pc = "reloaded" /\ NoFloats(tree.d) => out = tree.d

\* the file with a section whose empty key became "_subsection_1", loaded
\* again after the save: the synthetic key is now in the file, the dict the
\* same
C27_Witness ==
    /\ pc = "reloaded"
    /\ tree = PyDict(out)
    /\ out = <<Entry(<<95, 115, 117, 98, 115, 101, 99, 116, 105, 111, 110,
                       95, 49>>,
                     PyDict(<<Entry(<<97>>, PyInt(FALSE, <<1>>))>>))>>
    /\ data = <<0, 95, 115, 117, 98, 115, 101, 99, 116, 105, 111, 110, 95, 49,
                0, 2, 97, 0, 1, 0, 0, 0, 8, 8>>

----------------------------------------------------------------------------
(* the claims about the records *)

\* the records whose tags differ after the step
TagsChanged ==
    { i \in 1..Len(games) : Tags(games[i])' # Tags(games[i]) }

\* the step made a record with no tags argument
MadeWithoutTags ==
    /\ Len(games') = Len(games) + 1
    /\ games'[Len(games')].tags = DefaultTags

\* C28: records own their tags: of the records made with no tags argument
\* (by the constructor or by from_candidate), adding or changing a tag on
\* one leaves the tags of every other as they were, and a record made later
\* has no tags.
C28_RecordsOwnTheirTags ==
    [][/\ Cardinality(TagsChanged) <= 1
       /\ MadeWithoutTags => Tags(games[Len(games)])' = PyDict(<<>>)]_vars

----------------------------------------------------------------------------
(* the claims about saving *)

\* C30: a failed save leaves the previous file untouched: if
\* save_games_as_vdf raises before the new bytes have been written, the
\* shortcuts file that existed before the call still exists with its
\* previous contents.
C30_FailedSaveKeepsFile ==
    [][pc' = "save_raised" /\ pc # "save_raised" /\ exists =>
           exists' /\ data' = data]_vars

====
